---- MODULE Spec2Model ----
(***************************************************************************)
(* A model of gp_inbetween/core: the feedback log (feedback.rs), the       *)
(* confidence scorer (confidence.rs), the geometry normaliser              *)
(* (preprocessing.rs) and the orchestrator (lib.rs).                       *)
(*                                                                         *)
(* Conventions.                                                            *)
(*   Option<T>  : <<>> is None, <<v>> is Some(v).                          *)
(*   Result<T>  : a record with a boolean field ok.                        *)
(*   f32        : scores, penalties and thresholds are f32 values held in  *)
(*                units of 2^-28 and rounded as f32 rounds; rates and      *)
(*                pixel differences are exact fractions <<num, den>>,      *)
(*                compared by cross-multiplication.                        *)
(***************************************************************************)
EXTENDS Integers, Sequences, FiniteSets, TLC

VARIABLES
    cfg,    \* what is fixed at construction: Config and the scorer's logger
    file,   \* content of the feedback log file: a sequence of written chunks
    ret,    \* the call that returned last: its name, arguments and result
    wpc,    \* append_entry of each writer process: position in the function
    went,   \* append_entry of each writer process: the entry being written
    gen,    \* the generate_inbetweens call in progress, or the last one
    poll    \* the generate_via_replicate call in progress, or the last one

vars == <<cfg, file, ret, wpc, went, gen, poll>>

(***************************************************************************)
(* Bounds of the model and the sets the inputs are drawn from.             *)
(***************************************************************************)
MaxLog == 2
MaxFrames == 2
MaxGenLog == 2

Characters == {"hero", "villain"}
Procs == {"p1", "p2"}

None == <<>>
Some(v) == <<v>>

\* What a call returned: its name, what it was called with, Ok or Err, and
\* the value. NoRet while no call has returned.
Ret(op, arg, ok, val) == [op |-> op, arg |-> arg, ok |-> ok, val |-> val]
NoRet == Ret("none", <<>>, TRUE, <<>>)

\* generate_via_replicate: where the call is, the timeout it was configured
\* with, the whole seconds since start_time, the polls sent, the last
\* prediction read and what the call returned. NoPoll while none was made.
NoPoll ==
    [pc |-> "idle", timeout_secs |-> 0, elapsed |-> 0, polls |-> 0,
     status |-> "", output |-> "", download_ok |-> FALSE, outcome |-> ""]

(***************************************************************************)
(* feedback.rs: FeedbackEntry and the file it is stored in.                *)
(* The timestamp field is left out: no operation reads it.                 *)
(***************************************************************************)
FeedbackEvent == {"generation", "accept", "reject"}

FeedbackEntry(event, character, motion_type, frame_number, auto_accepted, issues) ==
    [event |-> event, character |-> character, motion_type |-> motion_type,
     frame_number |-> frame_number, auto_accepted |-> auto_accepted,
     issues |-> issues]

NoEntry == FeedbackEntry("", "", "", None, None, None)

\* What one write reaches the file with. "json" is a serialised FeedbackEntry,
\* "nl" the newline, "junk" text that is no FeedbackEntry (malformed JSON, an
\* unknown event tag, a truncated record), "bad" bytes that are not UTF-8.
JsonChunk(e) == [k |-> "json", e |-> e]
NlChunk == [k |-> "nl", e |-> NoEntry]
JunkChunk == [k |-> "junk", e |-> NoEntry]
BadChunk == [k |-> "bad", e |-> NoEntry]

\* BufRead::lines: the text between newlines; a last line without a newline
\* is a line too, an empty remainder after the last newline is not.
RECURSIVE SplitLines(_, _)
SplitLines(f, cur) ==
    IF f = <<>> THEN (IF cur = <<>> THEN <<>> ELSE <<cur>>)
    ELSE IF Head(f).k = "nl" THEN <<cur>> \o SplitLines(Tail(f), <<>>)
    ELSE SplitLines(Tail(f), Append(cur, Head(f)))

Lines(f) == SplitLines(f, <<>>)

LineIsUtf8(line) == \A i \in 1..Len(line) : line[i].k # "bad"
LineIsBlank(line) == line = <<>>
LineParses(line) == Len(line) = 1 /\ line[1].k = "json"

RECURSIVE ReadLoop(_, _)
ReadLoop(lines, entries) ==
    IF lines = <<>> THEN [ok |-> TRUE, entries |-> entries]
    ELSE IF ~LineIsUtf8(Head(lines)) THEN [ok |-> FALSE, entries |-> <<>>]
    ELSE IF LineIsBlank(Head(lines)) THEN ReadLoop(Tail(lines), entries)
    ELSE IF LineParses(Head(lines))
         THEN ReadLoop(Tail(lines), Append(entries, Head(lines)[1].e))
    ELSE ReadLoop(Tail(lines), entries)

\* read_entries; a file that does not exist reads like an empty one.
read_entries(f) == ReadLoop(Lines(f), <<>>)

\* append_entry with the file opened for writing from the start instead of
\* for appending
AppendEntryOverwriting(f, entry, io) ==
    IF io THEN [ok |-> TRUE, file |-> <<JsonChunk(entry), NlChunk>>]
    ELSE [ok |-> FALSE, file |-> f]

\* append_entry as one call: open in append mode, write the record, write
\* the newline. io is whether the open succeeds.
append_entry(f, entry, io) ==
    IF io THEN [ok |-> TRUE, file |-> f \o <<JsonChunk(entry), NlChunk>>]
    ELSE [ok |-> FALSE, file |-> f]

\* The filters with the motion type left out
PassesCharacterOnly(entry, character, motion_type) ==
    character # None => entry.character = character[1]

\* The two filters shared by get_acceptance_rate and get_stats.
PassesFilters(entry, character, motion_type) ==
    /\ (character # None => entry.character = character[1])
    /\ (motion_type # None => entry.motion_type = motion_type[1])

RECURSIVE RateLoop(_, _, _, _, _)
RateLoop(entries, character, motion_type, accepts, rejects) ==
    IF entries = <<>> THEN <<accepts, rejects>>
    ELSE LET entry == Head(entries) IN
         IF ~PassesFilters(entry, character, motion_type)
         THEN RateLoop(Tail(entries), character, motion_type, accepts, rejects)
         ELSE IF entry.event = "accept"
         THEN RateLoop(Tail(entries), character, motion_type, accepts + 1, rejects)
         ELSE IF entry.event = "reject"
         THEN RateLoop(Tail(entries), character, motion_type, accepts, rejects + 1)
         ELSE RateLoop(Tail(entries), character, motion_type, accepts, rejects)

\* The rate of a pair of counters, as get_acceptance_rate ends: 0.5 when both
\* are zero.
\* The share of rejections in place of the share of acceptances
RejectionRateOrHalf(accepts, rejects) ==
    IF accepts + rejects = 0 THEN <<1, 2>> ELSE <<rejects, accepts + rejects>>

RateOrHalf(accepts, rejects) ==
    IF accepts + rejects = 0 THEN <<1, 2>> ELSE <<accepts, accepts + rejects>>

get_acceptance_rate(f, character, motion_type) ==
    LET r == read_entries(f) IN
    IF ~r.ok THEN [ok |-> FALSE, rate |-> <<0, 1>>]
    ELSE LET c == RateLoop(r.entries, character, motion_type, 0, 0) IN
         [ok |-> TRUE, rate |-> RateOrHalf(c[1], c[2])]


(***************************************************************************)
(* feedback.rs: get_stats.  The HashMaps are functions on the keys seen.   *)
(***************************************************************************)
\* entry(key).or_insert(zero): the value under key, zero if there is none
OrInsert(map, key, zero) == IF key \in DOMAIN map THEN map[key] ELSE zero

\* The map with value stored under key
Bump(map, key, value) ==
    [k \in DOMAIN map \cup {key} |-> IF k = key THEN value ELSE map[k]]

IncFirst(p) == <<p[1] + 1, p[2]>>
IncSecond(p) == <<p[1], p[2] + 1>>
IncCount(n) == n + 1

RECURSIVE CountIssues(_, _)
CountIssues(issues, counts) ==
    IF issues = <<>> THEN counts
    ELSE CountIssues(Tail(issues), Bump(counts, Head(issues), IncCount(OrInsert(counts, Head(issues), 0))))

EmptyMap == [k \in {} |-> 0]

StatsZero ==
    [total_generations |-> 0, accepted |-> 0, rejected |-> 0, auto_accepted |-> 0,
     by_motion_type |-> EmptyMap, by_character |-> EmptyMap,
     issue_counts |-> EmptyMap]

RECURSIVE StatsLoop(_, _, _, _)
StatsLoop(entries, character, motion_type, acc) ==
    IF entries = <<>> THEN acc
    ELSE LET entry == Head(entries)
             rest == Tail(entries) IN
         IF ~PassesFilters(entry, character, motion_type)
         THEN StatsLoop(rest, character, motion_type, acc)
         ELSE IF entry.event = "generation"
         THEN StatsLoop(rest, character, motion_type,
                  [acc EXCEPT !.total_generations = @ + 1])
         ELSE IF entry.event = "accept"
         THEN StatsLoop(rest, character, motion_type,
                  [acc EXCEPT
                     !.accepted = @ + 1,
                     !.auto_accepted =
                         IF entry.auto_accepted = Some(TRUE) THEN @ + 1 ELSE @,
                     !.by_motion_type = Bump(@, entry.motion_type, IncFirst(OrInsert(@, entry.motion_type, <<0, 0>>))),
                     !.by_character = Bump(@, entry.character, IncFirst(OrInsert(@, entry.character, <<0, 0>>)))])
         ELSE StatsLoop(rest, character, motion_type,
                  [acc EXCEPT
                     !.rejected = @ + 1,
                     !.by_motion_type = Bump(@, entry.motion_type, IncSecond(OrInsert(@, entry.motion_type, <<0, 0>>))),
                     !.by_character = Bump(@, entry.character, IncSecond(OrInsert(@, entry.character, <<0, 0>>))),
                     !.issue_counts =
                         IF entry.issues # None
                         THEN CountIssues(entry.issues[1], @) ELSE @])

\* The rate get_stats computes from a pair of counters: 0.0 when both are zero.
RateOrZero(accepts, rejects) ==
    IF accepts + rejects > 0 THEN <<accepts, accepts + rejects>> ELSE <<0, 1>>

\* The pairs in any order at all
IssueOrdersUnsorted(counts) ==
    LET n == Cardinality(DOMAIN counts)
        pairs == {<<k, counts[k]>> : k \in DOMAIN counts} IN
    {s \in [1..n -> pairs] : \A i, j \in 1..n : i # j => s[i] # s[j]}

\* The orders `common_issues.sort_by(|a, b| b.1.cmp(&a.1))` can leave the
\* pairs in: the sort is stable and starts from the HashMap's iteration
\* order, which is unspecified, so every order with non-increasing counts.
SortedIssueOrders(counts) ==
    LET n == Cardinality(DOMAIN counts)
        pairs == {<<k, counts[k]>> : k \in DOMAIN counts} IN
    {s \in [1..n -> pairs] :
        /\ \A i, j \in 1..n : i # j => s[i] # s[j]
        /\ \A i \in 1..n : \A j \in 1..n : i < j => s[i][2] >= s[j][2]}

\* get_stats up to the order of common_issues; by_motion_type and
\* by_character are collected in HashMap order, kept here as sets of pairs.
get_stats(f, character, motion_type) ==
    LET r == read_entries(f) IN
    IF ~r.ok THEN [ok |-> FALSE, stats |-> StatsZero]
    ELSE LET a == StatsLoop(r.entries, character, motion_type, StatsZero) IN
         [ok |-> TRUE,
          stats |->
            [total_generations |-> a.total_generations,
             accepted |-> a.accepted,
             rejected |-> a.rejected,
             acceptance_rate |-> RateOrZero(a.accepted, a.rejected),
             auto_accepted |-> a.auto_accepted,
             by_motion_type |->
                 {<<k, RateOrZero(a.by_motion_type[k][1], a.by_motion_type[k][2])>> :
                     k \in DOMAIN a.by_motion_type},
             by_character |->
                 {<<k, RateOrZero(a.by_character[k][1], a.by_character[k][2])>> :
                     k \in DOMAIN a.by_character},
             issue_counts |-> a.issue_counts]]

(***************************************************************************)
(* feedback.rs: the three log_* calls.                                     *)
(***************************************************************************)
GenerationEntry(character, motion_type, num_frames) ==
    FeedbackEntry("generation", character, motion_type, Some(num_frames), None, None)

AcceptEntry(frame_number, character, motion_type, auto_accepted) ==
    FeedbackEntry("accept", character, motion_type, Some(frame_number),
                  Some(auto_accepted), None)

RejectEntry(frame_number, character, motion_type, issues) ==
    FeedbackEntry("reject", character, motion_type, Some(frame_number), None,
                  Some(issues))

log_generation(f, character, motion_type, num_frames, io) ==
    append_entry(f, GenerationEntry(character, motion_type, num_frames), io)

log_acceptance(f, frame_number, character, motion_type, auto_accepted, io) ==
    append_entry(f, AcceptEntry(frame_number, character, motion_type, auto_accepted), io)

log_rejection(f, frame_number, character, motion_type, issues, io) ==
    append_entry(f, RejectEntry(frame_number, character, motion_type, issues), io)

(***************************************************************************)
(* Images: width, height and the RGBA8 pixels in row-major order.          *)
(***************************************************************************)
Image(w, h, px) == [width |-> w, height |-> h, px |-> px]
Uniform(w, h, p) == Image(w, h, [i \in 1..(w * h) |-> p])

\* An image taken by its size alone: the pixels are not kept.
Sized(w, h) == Image(w, h, <<<<>>>>)
HasPixels(img) == img.px # <<<<>>>>

Clear == <<0, 0, 0, 0>>
Black == <<0, 0, 0, 255>>
White == <<255, 255, 255, 255>>

RECURSIVE SumSeq(_)
SumSeq(s) ==
    IF s = <<>> THEN 0
    ELSE IF Len(s) = 1 THEN s[1]
    ELSE SumSeq(SubSeq(s, 1, Len(s) \div 2))
             + SumSeq(SubSeq(s, Len(s) \div 2 + 1, Len(s)))

Min(a, b) == IF a < b THEN a ELSE b
Max(a, b) == IF a > b THEN a ELSE b
Abs(a) == IF a < 0 THEN -a ELSE a

\* `i % step == 0` over `pixels().enumerate()`: i counts from 0.
Sampled(i, step) == (i - 1) % step = 0

(***************************************************************************)
(* f32 arithmetic on positive values, as preprocessing.rs uses it:         *)
(* `x as f32`, `/`, `*`, `.round() as u32`.  A value is <<m, e>>, meaning  *)
(* m * 2^e with 2^23 <= m < 2^24 (the 24-bit significand), or <<0, 0>>.    *)
(* Every operation rounds to nearest, ties to even.  Products are formed   *)
(* from 12-bit halves so that no intermediate exceeds 31 bits.             *)
(***************************************************************************)
RECURSIVE Pow2(_)
Pow2(n) == IF n = 0 THEN 1 ELSE 2 * Pow2(n - 1)

RECURSIVE BitLen(_)
BitLen(n) == IF n = 0 THEN 0 ELSE 1 + BitLen(n \div 2)

Two23 == Pow2(23)
Two24 == Pow2(24)

\* m with the bits below it worth rem out of 2 * half: round to nearest even,
\* carrying into the exponent when the significand overflows.
F32RoundEven(m, rem, half, e) ==
    LET up == rem > half \/ (rem = half /\ m % 2 = 1)
        m1 == IF up THEN m + 1 ELSE m
    IN  IF m1 = Two24 THEN <<Two23, e + 1>> ELSE <<m1, e>>

\* `n as f32` for an unsigned integer n
F32FromNat(n) ==
    IF n = 0 THEN <<0, 0>>
    ELSE LET bl == BitLen(n) IN
         IF bl <= 24 THEN <<n * Pow2(24 - bl), bl - 24>>
         ELSE LET sh == bl - 24 IN
              F32RoundEven(n \div Pow2(sh), n % Pow2(sh), Pow2(sh - 1), sh)

\* <<quotient, remainder>> of (q * d + r) * 2^k by d, one bit at a time
RECURSIVE LongDiv(_, _, _, _)
LongDiv(q, r, d, k) ==
    IF k = 0 THEN <<q, r>>
    ELSE IF 2 * r >= d THEN LongDiv(2 * q + 1, 2 * r - d, d, k - 1)
    ELSE LongDiv(2 * q, 2 * r, d, k - 1)

\* a / b
F32Div(a, b) ==
    IF a[1] = 0 THEN <<0, 0>>
    ELSE LET k == IF a[1] >= b[1] THEN 23 ELSE 24
             qr == LongDiv(a[1] \div b[1], a[1] % b[1], b[1], k)
         IN  \* remainder r of b[1]: r/b[1] against 1/2 is 2r against b[1]
             F32RoundEven(qr[1], 2 * qr[2], b[1], a[2] - b[2] - k)

\* a * b
F32Mul(a, b) ==
    IF a[1] = 0 \/ b[1] = 0 THEN <<0, 0>>
    ELSE LET ah == a[1] \div Pow2(12)
             al == a[1] % Pow2(12)
             bh == b[1] \div Pow2(12)
             bl == b[1] % Pow2(12)
             mid == ah * bl + al * bh
             t == al * bl + (mid % Pow2(12)) * Pow2(12)
             lo == t % Two24
             hi == ah * bh + mid \div Pow2(12) + t \div Two24
         IN  \* the product is hi * 2^24 + lo, of 47 or 48 bits
             IF hi >= Two23
             THEN F32RoundEven(hi, lo, Two23, a[2] + b[2] + 24)
             ELSE F32RoundEven(2 * hi + lo \div Two23, lo % Two23, Pow2(22),
                               a[2] + b[2] + 23)

\* `x.round() as u32`: to the nearest integer, halves away from zero
F32RoundToU32(x) ==
    IF x[1] = 0 THEN 0
    ELSE IF x[2] >= 0 THEN x[1] * Pow2(x[2])
    ELSE IF -x[2] > 24 THEN 0
    ELSE (x[1] + Pow2(-x[2] - 1)) \div Pow2(-x[2])

\* The f32 values of the scorer lie within (-2, 2) and are multiples of
\* 2^-28: such a value x is held as the integer x * 2^28 (1.0 is 2^28), which
\* is exact for every f32 of magnitude 0 or at least 2^-5.
F32One == Pow2(28)

F32Fixed(x) == x[1] * Pow2(x[2] + 28)

\* The f32 nearest to h / 100: what the literal 0.85 is for h = 85
F32Lit(h) == IF h = 0 THEN 0 ELSE F32Fixed(F32Div(F32FromNat(h), F32FromNat(100)))

\* n, an exact sum or difference, rounded to a 24-bit significand
F32RoundFixed(n) ==
    IF Abs(n) < Two24 THEN n
    ELSE (IF n < 0 THEN -1 ELSE 1)
         * F32Fixed(F32RoundEven(Abs(n) \div Pow2(BitLen(Abs(n)) - 24),
                                 Abs(n) % Pow2(BitLen(Abs(n)) - 24),
                                 Pow2(BitLen(Abs(n)) - 25),
                                 BitLen(Abs(n)) - 24 - 28))

F32Add(a, b) == F32RoundFixed(a + b)
F32Sub(a, b) == F32RoundFixed(a - b)

(***************************************************************************)
(* confidence.rs: the four penalties and the score, f32 values in units of *)
(* 2^-28.  Rates and pixel differences are kept as exact fractions: they   *)
(* are correctly rounded quotients of small integers, which compare with a *)
(* decimal literal as the fractions do.                                    *)
(***************************************************************************)
ValidityCap == 1000
StatsCap == 500
AlphaThreshold == 128
LowAlpha == 50
MaxPixelDiff == 1020

check_image_validity(img) ==
    IF img.width = 0 \/ img.height = 0 THEN F32Lit(50)
    ELSE LET total_pixels == img.width * img.height
             sample_size == Min(total_pixels, ValidityCap)
             step == total_pixels \div sample_size
             non_transparent ==
                 SumSeq([i \in 1..total_pixels |->
                     IF Sampled(i, step) /\ img.px[i][4] > AlphaThreshold
                     THEN 1 ELSE 0])
             total_alpha ==
                 SumSeq([i \in 1..total_pixels |->
                     IF Sampled(i, step) THEN img.px[i][4] ELSE 0])
         IN  IF non_transparent < sample_size \div 10 THEN F32Lit(40)
             \* avg_alpha = total_alpha / sample_size < 50.0
             ELSE IF total_alpha < LowAlpha * sample_size THEN F32Lit(20)
             ELSE 0

ChannelDiff(pa, pb) ==
    Abs(pa[1] - pb[1]) + Abs(pa[2] - pb[2]) + Abs(pa[3] - pb[3]) + Abs(pa[4] - pb[4])

\* calculate_pixel_difference past its size check: the sampled pixels of two
\* images of one size, as a fraction <<num, den>>.
SampledDifference(img_a, img_b) ==
    LET total_pixels == img_a.width * img_a.height
        sample_size == Min(total_pixels, StatsCap)
        step == Max(total_pixels, 1) \div Max(sample_size, 1)
        counted(i) ==
            /\ Sampled(i, step)
            /\ (img_a.px[i][4] > AlphaThreshold \/ img_b.px[i][4] > AlphaThreshold)
        total_diff ==
            SumSeq([i \in 1..total_pixels |->
                IF counted(i) THEN ChannelDiff(img_a.px[i], img_b.px[i]) ELSE 0])
        samples ==
            SumSeq([i \in 1..total_pixels |-> IF counted(i) THEN 1 ELSE 0])
    IN  IF samples = 0 THEN <<0, 1>> ELSE <<total_diff, samples * MaxPixelDiff>>

\* Sizes that differ taken for a difference of 0.4
PixelDifferenceLowOnMismatch(img_a, img_b) ==
    IF img_a.width # img_b.width \/ img_a.height # img_b.height THEN <<2, 5>>
    ELSE SampledDifference(img_a, img_b)

\* The difference as a fraction <<num, den>>; 0.5 for images of different
\* size, returned before to_rgba8 is called on either.
calculate_pixel_difference(img_a, img_b) ==
    IF img_a.width # img_b.width \/ img_a.height # img_b.height THEN <<1, 2>>
    ELSE SampledDifference(img_a, img_b)

\* fraction q against the decimal n/d
FracGt(q, n, d) == q[1] * d > n * q[2]
FracLt(q, n, d) == q[1] * d < n * q[2]

\* The steps taken at their thresholds already
MotionComplexityInclusive(source_a, source_b) ==
    LET diff == calculate_pixel_difference(source_a, source_b) IN
    IF ~FracLt(diff, 4, 10) THEN F32Lit(35)
    ELSE IF ~FracLt(diff, 3, 10) THEN F32Lit(25)
    ELSE IF ~FracLt(diff, 2, 10) THEN F32Lit(15)
    ELSE IF ~FracLt(diff, 1, 10) THEN F32Lit(5)
    ELSE 0

assess_motion_complexity(source_a, source_b) ==
    LET diff == calculate_pixel_difference(source_a, source_b) IN
    IF FracGt(diff, 4, 10) THEN F32Lit(35)
    ELSE IF FracGt(diff, 3, 10) THEN F32Lit(25)
    ELSE IF FracGt(diff, 2, 10) THEN F32Lit(15)
    ELSE IF FracGt(diff, 1, 10) THEN F32Lit(5)
    ELSE 0

\* The bands closed at their upper ends
HistoricalSuccessInclusive(has_logger, f, motion_type, character) ==
    IF ~has_logger THEN 0
    ELSE LET r == get_acceptance_rate(f, character, Some(motion_type)) IN
         IF r.ok
         THEN IF ~FracGt(r.rate, 3, 10) THEN F32Lit(35)
              ELSE IF ~FracGt(r.rate, 5, 10) THEN F32Lit(25)
              ELSE IF ~FracGt(r.rate, 7, 10) THEN F32Lit(10)
              ELSE 0
         ELSE 0

\* has_logger is `self.feedback_logger.is_some()`, f the file it reads.
check_historical_success(has_logger, f, motion_type, character) ==
    IF ~has_logger THEN 0
    ELSE LET r == get_acceptance_rate(f, character, Some(motion_type)) IN
         IF r.ok
         THEN IF FracLt(r.rate, 3, 10) THEN F32Lit(35)
              ELSE IF FracLt(r.rate, 5, 10) THEN F32Lit(25)
              ELSE IF FracLt(r.rate, 7, 10) THEN F32Lit(10)
              ELSE 0
         ELSE 0

\* ImageStats in millionths (brightness and saturation are within [0, 1]).
Million == 1000 * 1000

PixelBrightness(p) == ((299 * p[1] + 587 * p[2] + 114 * p[3]) * 1000) \div 255

PixelSaturation(p) ==
    LET max == Max(Max(p[1], p[2]), p[3])
        min == Min(Min(p[1], p[2]), p[3]) IN
    IF max > 0 THEN ((max - min) * Million) \div max ELSE 0

calculate_image_stats(img) ==
    LET total_pixels == img.width * img.height
        sample_size == Min(total_pixels, StatsCap)
        step == Max(total_pixels, 1) \div Max(sample_size, 1)
        counted(i) == Sampled(i, step) /\ img.px[i][4] > AlphaThreshold
        total_brightness ==
            SumSeq([i \in 1..total_pixels |->
                IF counted(i) THEN PixelBrightness(img.px[i]) ELSE 0])
        total_saturation ==
            SumSeq([i \in 1..total_pixels |->
                IF counted(i) THEN PixelSaturation(img.px[i]) ELSE 0])
        samples == SumSeq([i \in 1..total_pixels |-> IF counted(i) THEN 1 ELSE 0])
    IN  IF samples = 0 THEN [brightness |-> Million \div 2, saturation |-> 0]
        ELSE [brightness |-> total_brightness \div samples,
              saturation |-> total_saturation \div samples]

\* |gen - (a + b) / 2| > |a - b| + 0.1, doubled to stay in integers.
OutOfTolerance(g, a, b) == Abs(2 * g - (a + b)) > 2 * (Abs(a - b) + Million \div 10)

check_color_consistency(generated, source_a, source_b) ==
    LET gen_stats == calculate_image_stats(generated)
        a_stats == calculate_image_stats(source_a)
        b_stats == calculate_image_stats(source_b)
    IN  \* penalty = 0.0; penalty += 0.15; penalty += 0.1
        F32Add(IF OutOfTolerance(gen_stats.brightness, a_stats.brightness,
                                 b_stats.brightness)
               THEN F32Add(0, F32Lit(15)) ELSE 0,
               IF OutOfTolerance(gen_stats.saturation, a_stats.saturation,
                                 b_stats.saturation)
               THEN F32Lit(10) ELSE 0)

\* f32::clamp(0.0, 1.0)
Clamp01(x) == IF x < 0 THEN 0 ELSE IF x > F32One THEN F32One ELSE x

\* The validity penalty taken from the first source
PenaltiesValidityOfSource(has_logger, f, generated, source_a, source_b, motion_type, character) ==
    [validity |-> check_image_validity(source_a),
     complexity |-> assess_motion_complexity(source_a, source_b),
     historical |-> check_historical_success(has_logger, f, motion_type, character),
     consistency |-> check_color_consistency(generated, source_a, source_b)]

\* The four penalties score_frame subtracts, in its order.
Penalties(has_logger, f, generated, source_a, source_b, motion_type, character) ==
    [validity |-> check_image_validity(generated),
     complexity |-> assess_motion_complexity(source_a, source_b),
     historical |-> check_historical_success(has_logger, f, motion_type, character),
     consistency |-> check_color_consistency(generated, source_a, source_b)]

\* The subtraction without the final clamp
FuseScoreUnclamped(p) ==
    F32Sub(F32Sub(F32Sub(F32Sub(F32One, p.validity), p.complexity), p.historical),
           p.consistency)

\* score = 1.0; score -= each penalty in turn; score.clamp(0.0, 1.0)
FuseScore(p) ==
    Clamp01(F32Sub(F32Sub(F32Sub(F32Sub(F32One, p.validity), p.complexity),
                          p.historical),
                   p.consistency))

score_frame(has_logger, f, generated, source_a, source_b, motion_type, character) ==
    FuseScore(Penalties(has_logger, f, generated, source_a, source_b,
                        motion_type, character))

\* The comparison made strict
ShouldAutoAcceptStrict(threshold, score) == score > threshold

should_auto_accept(threshold, score) == score >= threshold

\* The bands closed at their upper ends
DetectMotionTypeInclusive(img_a, img_b) ==
    LET diff == calculate_pixel_difference(img_a, img_b) IN
    IF ~FracGt(diff, 5, 100) THEN "static"
    ELSE IF ~FracGt(diff, 15, 100) THEN "subtle"
    ELSE IF ~FracGt(diff, 3, 10) THEN "normal"
    ELSE "dynamic"

\* detect_motion_type: the scorer it builds is used for
\* calculate_pixel_difference alone, which reads neither its threshold nor
\* its logger.
detect_motion_type(img_a, img_b) ==
    LET diff == calculate_pixel_difference(img_a, img_b) IN
    IF FracLt(diff, 5, 100) THEN "static"
    ELSE IF FracLt(diff, 15, 100) THEN "subtle"
    ELSE IF FracLt(diff, 3, 10) THEN "normal"
    ELSE "dynamic"

(***************************************************************************)
(* preprocessing.rs: the geometry normaliser.  The image crate's resize,   *)
(* crop_imm, resize_exact and ImageBuffer::from_pixel are taken by the     *)
(* dimensions they return; resampled pixel content is not modelled.        *)
(***************************************************************************)
\* `(target - new) / 2` on u32. With overflow checks (a debug build) a
\* negative difference panics; without (a release build) it wraps mod 2^32:
\* (2^32 - d) / 2 = 2^31 - ceil(d / 2).
I32Max == 2 * (Pow2(30) - 1) + 1

HalfDiff(target, new, overflow_checks) ==
    IF new <= target THEN [panic |-> FALSE, v |-> (target - new) \div 2]
    ELSE IF overflow_checks THEN [panic |-> TRUE, v |-> 0]
    ELSE [panic |-> FALSE, v |-> I32Max - ((new - target - 1) \div 2)]

ScaledDim(dim, scale) == F32RoundToU32(F32Mul(F32FromNat(dim), scale))

\* The placement both get_padding_info and normalize_resolution work out,
\* with the same arithmetic: the scaled size and the centring offsets.
PlacementOf(scale, new_width, new_height, x, y) ==
    [panic |-> x.panic \/ y.panic,
     x_offset |-> x.v, y_offset |-> y.v,
     scaled_width |-> new_width, scaled_height |-> new_height,
     scale |-> scale]

PlacementAt(target, scale, new_width, new_height, overflow_checks) ==
    PlacementOf(scale, new_width, new_height,
                HalfDiff(target, new_width, overflow_checks),
                HalfDiff(target, new_height, overflow_checks))

PlacementScaled(target, width, height, scale, overflow_checks) ==
    PlacementAt(target, scale, ScaledDim(width, scale), ScaledDim(height, scale),
                overflow_checks)

get_padding_info(target, original_width, original_height, overflow_checks) ==
    PlacementScaled(target, original_width, original_height,
                    F32Div(F32FromNat(target),
                           F32FromNat(Max(original_width, original_height))),
                    overflow_checks)

\* A pixel whose value a resampling filter decides.
Resampled == <<-1, -1, -1, -1>>

IsUniform(img) == \A i, j \in 1..Len(img.px) : img.px[i] = img.px[j]

PixelAt(img, x, y) == img.px[y * img.width + x + 1]

\* p / q to the nearest integer, halves away from zero
RoundDiv(p, q) == (2 * p + q) \div (2 * q)

\* DynamicImage::resize: the largest size of the image's aspect ratio within
\* nwidth x nheight, no side below 1. An image already of that size is
\* copied; a uniform image stays uniform.
ResizeDims(img, nwidth, nheight) ==
    IF nwidth * img.height <= nheight * img.width
    THEN <<Max(nwidth, 1), Max(RoundDiv(img.height * nwidth, img.width), 1)>>
    ELSE <<Max(RoundDiv(img.width * nheight, img.height), 1), Max(nheight, 1)>>

Resample(img, w, h) ==
    IF w = img.width /\ h = img.height THEN img
    ELSE IF ~HasPixels(img) THEN Sized(w, h)
    ELSE IF img.px # <<>> /\ IsUniform(img) THEN Uniform(w, h, img.px[1])
    ELSE Uniform(w, h, Resampled)

ResampleTo(img, d) == Resample(img, d[1], d[2])

resize(img, nwidth, nheight) == ResampleTo(img, ResizeDims(img, nwidth, nheight))

\* DynamicImage::resize_exact
resize_exact(img, nwidth, nheight) == Resample(img, nwidth, nheight)

\* DynamicImage::crop_imm: the rectangle, cut to the image's bounds
crop_imm(img, x, y, width, height) ==
    LET x0 == Min(x, img.width)
        y0 == Min(y, img.height)
        w == Min(width, img.width - x0)
        h == Min(height, img.height - y0)
    IN  IF ~HasPixels(img) THEN Sized(w, h)
        ELSE Image(w, h, [i \in 1..(w * h) |->
                        PixelAt(img, x0 + ((i - 1) % w), y0 + ((i - 1) \div w))])

\* The size and placement normalize_resolution works out: the canvas is
\* target x target and the resized image goes to (x_offset, y_offset).
\* fast is the `already at target size` return.
GeometryOf(target, p) ==
    [panic |-> p.panic, fast |-> FALSE, width |-> target, height |-> target,
     new_width |-> p.scaled_width, new_height |-> p.scaled_height,
     x_offset |-> p.x_offset, y_offset |-> p.y_offset]

normalize_resolution(target, width, height, overflow_checks) ==
    IF width = target /\ height = target
    THEN [panic |-> FALSE, fast |-> TRUE, width |-> width, height |-> height,
          new_width |-> width, new_height |-> height, x_offset |-> 0, y_offset |-> 0]
    ELSE GeometryOf(target,
             PlacementScaled(target, width, height,
                             F32Div(F32FromNat(target), F32FromNat(Max(width, height))),
                             overflow_checks))

\* image::imageops::overlay of resized onto a transparent target x target
\* canvas at (x_offset, y_offset)
Overlay(target, resized, x_offset, y_offset) ==
    Image(target, target,
        [i \in 1..(target * target) |->
            IF /\ ((i - 1) % target) >= x_offset
               /\ ((i - 1) % target) - x_offset < resized.width
               /\ ((i - 1) \div target) >= y_offset
               /\ ((i - 1) \div target) - y_offset < resized.height
            THEN PixelAt(resized, ((i - 1) % target) - x_offset,
                         ((i - 1) \div target) - y_offset)
            ELSE Clear])

Compose(img, target, g) ==
    IF g.fast THEN img
    ELSE IF ~HasPixels(img) THEN Sized(target, target)
    ELSE Overlay(target, resize(img, g.new_width, g.new_height),
                 g.x_offset, g.y_offset)

\* The canvas normalize_resolution returns for img, pixel by pixel.
NormalizedImage(img, target, overflow_checks) ==
    Compose(img, target,
            normalize_resolution(target, img.width, img.height, overflow_checks))

\* The neighbours counted only above the threshold
OpaqueNeighboursStrict(img, x, y) ==
    Cardinality({d \in (-1..1) \X (-1..1) :
        /\ d # <<0, 0>>
        /\ x + d[1] >= 0 /\ x + d[1] < img.width
        /\ y + d[2] >= 0 /\ y + d[2] < img.height
        /\ PixelAt(img, x + d[1], y + d[2])[4] > AlphaThreshold})

\* cleanup: the isolated-pixel pass and the alpha pass.
OpaqueNeighbours(img, x, y) ==
    Cardinality({d \in (-1..1) \X (-1..1) :
        /\ d # <<0, 0>>
        /\ x + d[1] >= 0 /\ x + d[1] < img.width
        /\ y + d[2] >= 0 /\ y + d[2] < img.height
        /\ PixelAt(img, x + d[1], y + d[2])[4] >= AlphaThreshold})

CleanupFirstPass(img, x, y) ==
    LET pixel == PixelAt(img, x, y) IN
    IF pixel[4] < AlphaThreshold THEN Clear
    ELSE IF OpaqueNeighbours(img, x, y) >= 2 THEN pixel
    ELSE Clear

CleanupAlphaPass(pixel) ==
    IF pixel[4] < AlphaThreshold THEN Clear
    ELSE <<pixel[1], pixel[2], pixel[3], 255>>

cleanup(img) ==
    Image(img.width, img.height,
        [i \in 1..(img.width * img.height) |->
            CleanupAlphaPass(
                CleanupFirstPass(img, (i - 1) % img.width, (i - 1) \div img.width))])

CleanupIf(cleanup_enabled, normalized) ==
    IF cleanup_enabled THEN cleanup(normalized) ELSE normalized

\* Preprocessor::process
process(img, normalize, cleanup_enabled, target, overflow_checks) ==
    CleanupIf(cleanup_enabled,
              IF normalize THEN NormalizedImage(img, target, overflow_checks) ELSE img)

\* The padding cut away and the content left at its scaled size
RestoreCropOnly(processed, padding_info, original_width, original_height) ==
    crop_imm(processed, padding_info.x_offset, padding_info.y_offset,
             padding_info.scaled_width, padding_info.scaled_height)

\* Preprocessor::restore_original_size
restore_original_size(processed, padding_info, original_width, original_height) ==
    resize_exact(
        crop_imm(processed, padding_info.x_offset, padding_info.y_offset,
                 padding_info.scaled_width, padding_info.scaled_height),
        original_width, original_height)

(***************************************************************************)
(* lib.rs: the orchestrator.                                               *)
(***************************************************************************)
ScoredFrame(frame, score, auto_accept) ==
    [frame |-> frame, score |-> score, auto_accept |-> auto_accept]

\* One turn of the loop over the returned frames (lib.rs, step 5): the
\* ScoredFrame pushed for `frame`.
ScoredWith(final_frame, score, threshold) ==
    ScoredFrame(final_frame, score, should_auto_accept(threshold, score))

ScoreOne(c, f, g, frame) ==
    ScoredWith(IF c.normalize_resolution
               THEN restore_original_size(frame, g.padding_info, g.orig_width,
                                          g.orig_height)
               ELSE frame,
               score_frame(c.has_logger, f, frame, g.cleaned_a, g.cleaned_b,
                           g.detected_motion, g.character),
               c.auto_accept_threshold)

\* A push at the front of the list
PushFrameFront(scored_frames, sf) == <<sf>> \o scored_frames

PushFrame(scored_frames, sf) == Append(scored_frames, sf)

GenerationResult(c, g) ==
    [frames |-> g.scored_frames,
     metadata |->
        [character |-> g.character,
         motion_type |-> Some(g.detected_motion),
         auto_accept_threshold |-> c.auto_accept_threshold,
         original_width |-> g.orig_width,
         original_height |-> g.orig_height]]

RECURSIVE MapField(_, _)
MapField(frames, field) ==
    IF frames = <<>> THEN <<>>
    ELSE <<Head(frames)[field]>> \o MapField(Tail(frames), field)

\* impl From<&GenerationResult> for OutputMetadata
OutputMetadata(result) ==
    [character |-> result.metadata.character,
     motion_type |-> result.metadata.motion_type,
     confidence_scores |-> MapField(result.frames, "score"),
     auto_accept |-> MapField(result.frames, "auto_accept"),
     auto_accept_threshold |-> result.metadata.auto_accept_threshold]

NoImage == Image(0, 0, <<>>)

\* The locals of generate_inbetweens before a call. api_calls counts the
\* calls of api_client.generate_inbetweens the request has made and
\* log_before is the log file as the request found it.
NoGen ==
    [pc |-> "idle", character |-> None, motion_type |-> None, num_frames |-> 0,
     orig_width |-> 0, orig_height |-> 0, padding_info |-> get_padding_info(1, 1, 1, FALSE),
     cleaned_a |-> NoImage, cleaned_b |-> NoImage, detected_motion |-> "",
     api_calls |-> 0, generated |-> <<>>, pending |-> <<>>, scored_frames |-> <<>>,
     log_before |-> <<>>, img_a |-> NoImage]

GenIdle == gen.pc \in {"idle", "done", "failed"}

\* The motion type detected whatever the caller supplied
MotionTypeDetected(motion_type, cleaned_a, cleaned_b) ==
    detect_motion_type(cleaned_a, cleaned_b)

\* motion_type.map(String::from).unwrap_or_else(|| detect_motion_type(..))
MotionTypeOf(motion_type, cleaned_a, cleaned_b) ==
    IF motion_type # None THEN motion_type[1]
    ELSE detect_motion_type(cleaned_a, cleaned_b)

\* The generator's locals once both sources are loaded and processed.
Started(character, motion_type, num_frames, img_a, cleaned_a, cleaned_b) ==
    [NoGen EXCEPT
        !.pc = "ready",
        !.log_before = file,
        !.img_a = img_a,
        !.character = character,
        !.motion_type = motion_type,
        !.num_frames = num_frames,
        !.orig_width = img_a.width,
        !.orig_height = img_a.height,
        !.padding_info = get_padding_info(cfg.target_resolution, img_a.width,
                                          img_a.height, cfg.overflow_checks),
        !.cleaned_a = cleaned_a,
        !.cleaned_b = cleaned_b,
        !.detected_motion = MotionTypeOf(motion_type, cleaned_a, cleaned_b)]

\* Steps 1 to 3: image::open of both paths (None: the file does not decode),
\* the padding of source A, process of both, the motion type.
GenBegin(frame_a, frame_b, num_frames, character, motion_type) ==
    /\ GenIdle
    /\ Len(Lines(file)) < MaxGenLog
    /\ UNCHANGED <<cfg, file, wpc, went, poll>>
    /\ IF frame_a = None \/ frame_b = None
       THEN /\ gen' = [NoGen EXCEPT !.pc = "failed", !.character = character,
                          !.motion_type = motion_type, !.num_frames = num_frames,
                          !.log_before = file]
            /\ ret' = Ret("generate_inbetweens", <<>>, FALSE, "load")
       ELSE /\ gen' = Started(character, motion_type, num_frames, frame_a[1],
                              process(frame_a[1], cfg.normalize_resolution,
                                      cfg.cleanup_enabled, cfg.target_resolution,
                                      cfg.overflow_checks),
                              process(frame_b[1], cfg.normalize_resolution,
                                      cfg.cleanup_enabled, cfg.target_resolution,
                                      cfg.overflow_checks))
            /\ ret' = NoRet

\* The collaborator asked a second time after it failed
GenCallApiTwice(answer) ==
    /\ gen.pc = "ready"
    /\ UNCHANGED <<cfg, file, wpc, went, poll>>
    /\ IF answer.ok
       THEN /\ gen' = [gen EXCEPT !.pc = "scoring", !.api_calls = @ + 1,
                                  !.generated = answer.frames,
                                  !.pending = answer.frames]
            /\ ret' = NoRet
       ELSE /\ gen' = [gen EXCEPT !.pc = "failed", !.api_calls = @ + 2]
            /\ ret' = Ret("generate_inbetweens", <<>>, FALSE, answer.err)

\* Step 4: the collaborator answers with frames or with an error.
GenCallApi(answer) ==
    /\ gen.pc = "ready"
    /\ UNCHANGED <<cfg, file, wpc, went, poll>>
    /\ IF answer.ok
       THEN /\ gen' = [gen EXCEPT !.pc = "scoring", !.api_calls = @ + 1,
                                  !.generated = answer.frames,
                                  !.pending = answer.frames]
            /\ ret' = NoRet
       ELSE /\ gen' = [gen EXCEPT !.pc = "failed", !.api_calls = @ + 1]
            /\ ret' = Ret("generate_inbetweens", <<>>, FALSE, answer.err)

\* Step 5, one frame.
GenScoreFrame ==
    /\ gen.pc = "scoring"
    /\ gen.pending # <<>>
    /\ gen' = [gen EXCEPT
                 !.pending = Tail(@),
                 !.scored_frames =
                     PushFrame(@, ScoreOne(cfg, file, gen, Head(gen.pending)))]
    /\ ret' = NoRet
    /\ UNCHANGED <<cfg, file, wpc, went, poll>>

\* A character left out is logged under the empty name
CharacterOrEmpty(character) == IF character # None THEN character[1] ELSE ""

\* character.unwrap_or("unknown")
CharacterOrUnknown(character) == IF character # None THEN character[1] ELSE "unknown"

\* Step 6 and the return.
GenLogAndReturn(io) ==
    LET r == log_generation(file, CharacterOrUnknown(gen.character),
                            gen.detected_motion, gen.num_frames, io) IN
    /\ gen.pc = "scoring"
    /\ gen.pending = <<>>
    /\ file' = r.file
    /\ IF r.ok
       THEN /\ gen' = [gen EXCEPT !.pc = "done"]
            /\ ret' = Ret("generate_inbetweens", <<>>, TRUE, GenerationResult(cfg, gen))
       ELSE /\ gen' = [gen EXCEPT !.pc = "failed"]
            /\ ret' = Ret("generate_inbetweens", <<>>, FALSE, "log")
    /\ UNCHANGED <<cfg, wpc, went, poll>>

\* Generator::accept_frame and reject_frame. The locals of the last
\* generate_inbetweens are gone once another call is made.
AcceptFrame(frame_number, character, motion_type, auto, io) ==
    LET r == log_acceptance(file, frame_number, character, motion_type, auto, io) IN
    /\ GenIdle
    /\ Len(Lines(file)) < MaxGenLog
    /\ file' = r.file
    /\ ret' = Ret("accept_frame", <<>>, r.ok, <<>>)
    /\ gen' = NoGen
    /\ UNCHANGED <<cfg, wpc, went, poll>>

RejectFrame(frame_number, character, motion_type, issues, io) ==
    LET r == log_rejection(file, frame_number, character, motion_type, issues, io) IN
    /\ GenIdle
    /\ Len(Lines(file)) < MaxGenLog
    /\ file' = r.file
    /\ ret' = Ret("reject_frame", <<>>, r.ok, <<>>)
    /\ gen' = NoGen
    /\ UNCHANGED <<cfg, wpc, went, poll>>

ShouldAutoAccept(score) ==
    /\ GenIdle
    /\ ret' = Ret("should_auto_accept", score,
                  TRUE, should_auto_accept(cfg.auto_accept_threshold, score))
    /\ gen' = NoGen
    /\ UNCHANGED <<cfg, file, wpc, went, poll>>

(***************************************************************************)
(* The feedback log driven through FeedbackLogger's calls, one at a time.  *)
(***************************************************************************)
IdleWriters == [p \in Procs |-> "idle"]
NoWrites == [p \in Procs |-> NoEntry]

\* FeedbackLogger::default_log_path
default_log_path == "~/.blender/gp_ai_feedback/feedback.jsonl"

\* Config::default() with a 2 x 2 canvas, in a release build. has_logger is
\* the scorer's `feedback_logger.is_some()`: ConfidenceScorer::new keeps
\* FeedbackLogger::new().ok(), a logger on the default path unless the home
\* directory cannot be found or made.
\* log_path is the file the logger appends to, scorer_log_path the one the
\* scorer's logger reads.
DefaultCfg ==
    [auto_accept_threshold |-> F32Lit(85), has_logger |-> TRUE,
     normalize_resolution |-> TRUE, cleanup_enabled |-> TRUE,
     target_resolution |-> 2, overflow_checks |-> FALSE,
     feedback_log_path |-> None, log_path |-> default_log_path,
     scorer_log_path |-> default_log_path]

\* A log of `accepts` accept entries and then `rejects` reject entries of
\* (hero, walk), as log_acceptance and log_rejection leave it.
SeedLog(accepts, rejects) ==
    [i \in 1..(2 * (accepts + rejects)) |->
        IF i % 2 = 0 THEN NlChunk
        ELSE IF (i + 1) \div 2 <= accepts
             THEN JsonChunk(AcceptEntry(1, "hero", "walk", FALSE))
             ELSE JsonChunk(RejectEntry(1, "hero", "walk", <<"blur">>))]

\* The logs a scorer starts over: the empty one, and logs whose acceptance
\* rate for (hero, walk) is 0.2, 0.3, 0.4, 2/3 and 0.7.
SeedLogs ==
    {SeedLog(0, 0), SeedLog(1, 4), SeedLog(3, 7), SeedLog(2, 3), SeedLog(2, 1),
     SeedLog(7, 3)}

\* The log grows by calls up to MaxLog lines; a log a scorer starts over
\* takes one line more.
RoomInLog == Len(Lines(file)) < MaxLog \/ file \in SeedLogs
EndsLine(f) == IF f = <<>> THEN TRUE ELSE f[Len(f)].k = "nl"

LogGeneration(character, motion_type, num_frames, io) ==
    LET r == log_generation(file, character, motion_type, num_frames, io) IN
    /\ RoomInLog
    /\ file' = r.file
    /\ ret' = Ret("log_generation", <<>>, r.ok, <<>>)
    /\ UNCHANGED <<cfg, wpc, went, gen, poll>>

LogAcceptance(frame_number, character, motion_type, auto_accepted, io) ==
    LET r == log_acceptance(file, frame_number, character, motion_type,
                            auto_accepted, io) IN
    /\ RoomInLog
    /\ file' = r.file
    /\ ret' = Ret("log_acceptance", <<>>, r.ok, <<>>)
    /\ UNCHANGED <<cfg, wpc, went, gen, poll>>

LogRejection(frame_number, character, motion_type, issues, io) ==
    LET r == log_rejection(file, frame_number, character, motion_type, issues, io) IN
    /\ RoomInLog
    /\ file' = r.file
    /\ ret' = Ret("log_rejection", <<>>, r.ok, <<>>)
    /\ UNCHANGED <<cfg, wpc, went, gen, poll>>

GetAcceptanceRate(character, motion_type) ==
    LET r == get_acceptance_rate(file, character, motion_type) IN
    /\ ret' = Ret("get_acceptance_rate",
                  [character |-> character, motion_type |-> motion_type],
                  r.ok, r.rate)
    /\ UNCHANGED <<cfg, file, wpc, went, gen, poll>>

GetStats(character, motion_type) ==
    LET r == get_stats(file, character, motion_type) IN
    /\ \E order \in SortedIssueOrders(r.stats.issue_counts) :
          ret' = Ret("get_stats",
                     [character |-> character, motion_type |-> motion_type],
                     r.ok, [r.stats EXCEPT !.issue_counts = order])
    /\ UNCHANGED <<cfg, file, wpc, went, gen, poll>>

\* What reaches the file from outside these calls: a line that is no
\* FeedbackEntry, a line holding bytes that are not UTF-8, an empty line, and
\* a record cut short with no newline after it (a writer that died).
ForeignLines == {<<JunkChunk, NlChunk>>, <<BadChunk, NlChunk>>, <<NlChunk>>, <<JunkChunk>>}

ForeignWrite(chunks) ==
    /\ RoomInLog
    /\ EndsLine(file)
    /\ file' = file \o chunks
    /\ ret' = Ret("foreign", <<>>, TRUE, <<>>)
    /\ UNCHANGED <<cfg, wpc, went, gen, poll>>

\* (character, motion type) of the entries written
LogKeys == {<<"hero", "walk">>, <<"villain", "walk">>, <<"hero", "run">>}
\* <<character, issues>> of the rejections that carry issue tags
TaggedRejections ==
    {<<"hero", <<"blur">>>>, <<"hero", <<"pose", "blur", "pose">>>>,
     <<"villain", <<"blur">>>>}
QueryCharacters == {None, Some("hero")}
QueryMotionTypes == {None, Some("walk")}

Init ==
    /\ cfg = DefaultCfg
    /\ file = <<>>
    /\ ret = NoRet
    /\ wpc = IdleWriters
    /\ went = NoWrites
    /\ gen = NoGen
    /\ poll = NoPoll

Next ==
    \/ \E io \in BOOLEAN : LogGeneration("hero", "walk", 2, io)
    \/ \E k \in LogKeys, io \in BOOLEAN : LogAcceptance(1, k[1], k[2], FALSE, io)
    \/ \E io \in BOOLEAN : LogAcceptance(1, "hero", "walk", TRUE, io)
    \/ \E k \in LogKeys, io \in BOOLEAN : LogRejection(2, k[1], k[2], <<>>, io)
    \/ \E r \in TaggedRejections, io \in BOOLEAN : LogRejection(2, r[1], "walk", r[2], io)
    \/ \E c \in QueryCharacters, m \in QueryMotionTypes : GetAcceptanceRate(c, m)
    \/ \E c \in QueryCharacters, m \in QueryMotionTypes : GetStats(c, m)
    \/ \E chunks \in ForeignLines : ForeignWrite(chunks)

Spec == Init /\ [][Next]_vars

(***************************************************************************)
(* The scorer: score_frame over a log that accept and reject events reach. *)
(***************************************************************************)
Empty == Image(0, 0, <<>>)
White2 == Uniform(2, 2, White)
Black2 == Uniform(2, 2, Black)
Clear52 == Uniform(5, 2, Clear)
Tall == Uniform(1, 2, White)

\* <<generated, source_a, source_b>>
ScoreInputs ==
    {<<White2, White2, White2>>, <<White2, White2, Black2>>,
     <<Black2, White2, White2>>, <<Clear52, White2, Black2>>,
     <<Clear52, Clear52, Clear52>>, <<Empty, Empty, White2>>,
     <<Empty, Empty, Empty>>, <<White2, Tall, White2>>}

ScoreFrame(generated, source_a, source_b, motion_type, character) ==
    LET p == Penalties(cfg.has_logger, file, generated, source_a, source_b,
                       motion_type, character) IN
    /\ ret' = Ret("score_frame",
                  [generated |-> generated, source_a |-> source_a,
                   source_b |-> source_b, motion_type |-> motion_type,
                   character |-> character],
                  TRUE,
                  [score |-> score_frame(cfg.has_logger, file, generated, source_a,
                                         source_b, motion_type, character),
                   penalties |-> p])
    /\ UNCHANGED <<cfg, file, wpc, went, gen, poll>>

\* One opaque pixel whose channels sum to d above black
Probe(d) == Uniform(1, 1, <<Min(d, 255), Max(d - 255, 0), 0, 255>>)

\* Channel sums at and next to the breakpoints: 51, 153 and 306 of 1020 are
\* 0.05, 0.15 and 0.3; 102, 204, 306 and 408 are 0.1, 0.2, 0.3 and 0.4.
DiffSums == {0, 50, 51, 102, 103, 152, 153, 204, 205, 305, 306, 307, 408, 409, 510}

\* <<img_a, img_b>>
MotionInputs ==
    {<<Probe(0), Probe(d)>> : d \in DiffSums}
        \cup {<<Tall, White2>>, <<Empty, Empty>>, <<Clear52, Clear52>>,
              <<White2, Black2>>, <<Sized(3, 1), Sized(1, 3)>>,
              <<Sized(800, 600), Sized(800, 601)>>}

DetectMotionType(img_a, img_b) ==
    /\ ret' = Ret("detect_motion_type", <<img_a, img_b>>, TRUE,
                  detect_motion_type(img_a, img_b))
    /\ UNCHANGED <<cfg, file, wpc, went, gen, poll>>

\* 1001 pixels in a row: 190 opaque, 31 of alpha 50, the rest transparent.
\* The alphas sum to 50000: a mean of 49.95.
Row1001 ==
    Image(1001, 1, [i \in 1..1001 |->
        IF i <= 190 THEN White ELSE IF i <= 221 THEN <<0, 0, 0, 50>> ELSE Clear])

\* Images for the validity check: none, four and ten transparent pixels,
\* four faint ones, four opaque ones, one opaque pixel in ten and in fifteen,
\* and the row of 1001.
ValidityInputs ==
    {Empty, Uniform(2, 2, Clear), Clear52, Uniform(2, 2, <<0, 0, 0, 40>>), White2,
     Image(5, 2, [i \in 1..10 |-> IF i = 1 THEN White ELSE Clear]),
     Image(5, 3, [i \in 1..15 |-> IF i = 1 THEN White ELSE Clear]),
     Row1001}

\* The pixels the sampling loops visit (`i % step == 0` holds) in an image
\* of total_pixels pixels, with sample_size = total_pixels.min(cap) and
\* step = total_pixels.max(1) / sample_size.max(1).
SamplesVisited(total_pixels, cap) ==
    Cardinality({i \in 1..total_pixels :
        Sampled(i, Max(total_pixels, 1) \div Max(Min(total_pixels, cap), 1))})

\* The loops of check_image_validity, calculate_image_stats and
\* calculate_pixel_difference run over an image of total_pixels pixels:
\* the pixels each visits, and the sample_size avg_alpha is divided by.
VisitSamples(total_pixels) ==
    /\ ret' = Ret("samples", total_pixels, TRUE,
                  [validity |-> SamplesVisited(total_pixels, ValidityCap),
                   stats |-> SamplesVisited(total_pixels, StatsCap),
                   difference |-> SamplesVisited(total_pixels, StatsCap),
                   avg_alpha_divisor |-> Min(total_pixels, ValidityCap)])
    /\ UNCHANGED <<cfg, file, wpc, went, gen, poll>>

CheckImageValidity(img) ==
    /\ ret' = Ret("check_image_validity", img, TRUE, check_image_validity(img))
    /\ UNCHANGED <<cfg, file, wpc, went, gen, poll>>

AssessMotionComplexity(source_a, source_b) ==
    /\ ret' = Ret("assess_motion_complexity", <<source_a, source_b>>, TRUE,
                  assess_motion_complexity(source_a, source_b))
    /\ UNCHANGED <<cfg, file, wpc, went, gen, poll>>

InitScore ==
    /\ cfg \in {[DefaultCfg EXCEPT !.has_logger = b] : b \in BOOLEAN}
    /\ file \in SeedLogs
    /\ ret = NoRet
    /\ wpc = IdleWriters
    /\ went = NoWrites
    /\ gen = NoGen
    /\ poll = NoPoll

\* The scorer's calls read and change nothing but the value returned, so one
\* taken after another reaches no state that one taken after a write (or
\* first) does not: they are taken from the states writes leave.
ScorerCalls ==
    {"score_frame", "detect_motion_type", "assess_motion_complexity",
     "check_image_validity", "samples"}

NextScore ==
    \/ \E io \in BOOLEAN : LogGeneration("hero", "walk", 2, io)
    \/ \E io \in BOOLEAN : LogAcceptance(1, "hero", "walk", TRUE, io)
    \/ \E c \in Characters, io \in BOOLEAN : LogRejection(2, c, "walk", <<"blur">>, io)
    \/ ForeignWrite(<<BadChunk, NlChunk>>)
    \/ /\ ret.op \notin ScorerCalls
       /\ \/ \E i \in ScoreInputs, c \in QueryCharacters :
                ScoreFrame(i[1], i[2], i[3], "walk", c)
          \/ \E i \in MotionInputs : DetectMotionType(i[1], i[2])
          \/ \E i \in MotionInputs : AssessMotionComplexity(i[1], i[2])
          \/ \E img \in ValidityInputs : CheckImageValidity(img)
          \/ \E total_pixels \in {1, 4, 499, 500, 501, 999, 1000, 1001, 1999,
                                   2000, 2500} : VisitSamples(total_pixels)

SpecScore == InitScore /\ [][NextScore]_vars

(***************************************************************************)
(* The geometry normaliser on sizes: get_padding_info, normalize_resolution*)
(* and the round trip of test_padding_info_roundtrip, in both builds.      *)
(***************************************************************************)
Targets == {1, 2, 512, 1024, 8312022, 16777219}
OrigDims == {1, 3, 800, 1000, 49871}

GetPaddingInfo(w, h) ==
    LET p == get_padding_info(cfg.target_resolution, w, h, cfg.overflow_checks) IN
    /\ ret' = Ret("get_padding_info", <<w, h>>, ~p.panic, p)
    /\ UNCHANGED <<cfg, file, wpc, went, gen, poll>>

NormalizeResolution(w, h) ==
    LET g == normalize_resolution(cfg.target_resolution, w, h, cfg.overflow_checks) IN
    /\ ret' = Ret("normalize_resolution", <<w, h>>, ~g.panic,
                  NormalizedImage(Sized(w, h), cfg.target_resolution,
                                  cfg.overflow_checks))
    /\ UNCHANGED <<cfg, file, wpc, went, gen, poll>>

RoundTrip(w, h) ==
    LET padding_info ==
            get_padding_info(cfg.target_resolution, w, h, cfg.overflow_checks)
        g == normalize_resolution(cfg.target_resolution, w, h, cfg.overflow_checks)
        processed == NormalizedImage(Sized(w, h), cfg.target_resolution,
                                     cfg.overflow_checks)
        restored == restore_original_size(processed, padding_info, w, h)
    IN
    /\ ret' = Ret("roundtrip", <<w, h>>, ~(padding_info.panic \/ g.panic),
                  [processed |-> processed, restored |-> restored])
    /\ UNCHANGED <<cfg, file, wpc, went, gen, poll>>

\* Images for cleanup: every 3x3 image of alphas just under and at the
\* threshold, and every 2x2 image of alphas 0, 200 and 255.
Ink(alpha) == <<10, 20, 30, alpha>>

CleanupInputs ==
    {Image(3, 3, [i \in 1..9 |-> Ink(a[i])]) :
        a \in [1..9 -> {AlphaThreshold - 1, AlphaThreshold}]}
    \cup {Image(2, 2, [i \in 1..4 |-> Ink(a[i])]) : a \in [1..4 -> {0, 200, 255}]}

Cleanup(img) ==
    /\ ret' = Ret("cleanup", img, TRUE, cleanup(img))
    /\ UNCHANGED <<cfg, file, wpc, went, gen, poll>>

InitGeom ==
    /\ cfg \in {[DefaultCfg EXCEPT !.target_resolution = t, !.overflow_checks = c] :
                   t \in Targets, c \in BOOLEAN}
    /\ file = <<>>
    /\ ret = NoRet
    /\ wpc = IdleWriters
    /\ went = NoWrites
    /\ gen = NoGen
    /\ poll = NoPoll

NextGeom ==
    \/ \E w \in OrigDims, h \in OrigDims : GetPaddingInfo(w, h)
    \/ \E w \in OrigDims, h \in OrigDims : NormalizeResolution(w, h)
    \/ \E w \in OrigDims, h \in OrigDims : RoundTrip(w, h)

SpecGeom == InitGeom /\ [][NextGeom]_vars

\* The cleanup pass on its own.
InitCleanup ==
    /\ cfg = DefaultCfg
    /\ file = <<>>
    /\ ret = NoRet
    /\ wpc = IdleWriters
    /\ went = NoWrites
    /\ gen = NoGen
    /\ poll = NoPoll

NextCleanup == \E img \in CleanupInputs : Cleanup(img)

SpecCleanup == InitCleanup /\ [][NextCleanup]_vars

(***************************************************************************)
(* append_entry write by write, in several processes on one file.          *)
(* `writeln!(file, "{json}")` on an unbuffered File is two writes: the     *)
(* record, then the newline; each write lands at the end of the file.      *)
(***************************************************************************)
InFlight == {p \in Procs : wpc[p] \in {"opened", "json"}}

AppendOpen(p, entry, io) ==
    /\ wpc[p] \in {"idle", "done", "failed"}
    /\ Len(Lines(file)) + Cardinality(InFlight) < MaxLog
    /\ wpc' = [wpc EXCEPT ![p] = IF io THEN "opened" ELSE "failed"]
    /\ went' = [went EXCEPT ![p] = entry]
    /\ UNCHANGED <<cfg, file, ret, gen, poll>>

AppendWriteJson(p) ==
    /\ wpc[p] = "opened"
    /\ file' = Append(file, JsonChunk(went[p]))
    /\ wpc' = [wpc EXCEPT ![p] = "json"]
    /\ UNCHANGED <<cfg, ret, went, gen, poll>>

AppendWriteNewline(p) ==
    /\ wpc[p] = "json"
    /\ file' = Append(file, NlChunk)
    /\ wpc' = [wpc EXCEPT ![p] = "done"]
    /\ UNCHANGED <<cfg, ret, went, gen, poll>>

ReadEntries ==
    LET r == read_entries(file) IN
    /\ ret' = Ret("read_entries", <<>>, r.ok, r.entries)
    /\ UNCHANGED <<cfg, file, wpc, went, gen, poll>>

AppendEntries == {AcceptEntry(1, "hero", "walk", FALSE), RejectEntry(2, "hero", "walk", <<>>)}

NextAppend ==
    \/ \E p \in Procs, e \in AppendEntries, io \in BOOLEAN : AppendOpen(p, e, io)
    \/ \E p \in Procs : AppendWriteJson(p)
    \/ \E p \in Procs : AppendWriteNewline(p)
    \/ ReadEntries

SpecAppend == Init /\ [][NextAppend]_vars

(***************************************************************************)
(* The Generator: requests, the collaborator's answers, feedback.          *)
(***************************************************************************)
GenRequests ==
    {[a |-> Some(White2), b |-> Some(White2), character |-> Some("hero"),
      motion_type |-> Some("walk")],
     [a |-> Some(White2), b |-> Some(Black2), character |-> None,
      motion_type |-> None],
     [a |-> Some(Tall), b |-> Some(White2), character |-> Some("hero"),
      motion_type |-> None],
     [a |-> None, b |-> Some(White2), character |-> None, motion_type |-> None],
     [a |-> Some(White2), b |-> None, character |-> Some("hero"),
      motion_type |-> Some("walk")]}

GenFrames == {White2, Empty}

RECURSIVE SeqsUpTo(_, _)
SeqsUpTo(S, n) ==
    IF n = 0 THEN {<<>>}
    ELSE LET shorter == SeqsUpTo(S, n - 1) IN
         shorter \cup {Append(q, x) : q \in shorter, x \in S}

ApiAnswers ==
    {[ok |-> TRUE, frames |-> fs, err |-> ""] : fs \in SeqsUpTo(GenFrames, MaxFrames)}
    \cup {[ok |-> FALSE, frames |-> <<>>, err |-> "timeout"]}

\* Generator::new builds its scorer with ConfidenceScorer::new and its logger
\* with FeedbackLogger::new: both are on the default path, and a Generator
\* exists only if FeedbackLogger::new succeeded, so its scorer has a logger
\* and reads the file the generator appends to. The thresholds are the
\* default 0.85 and 1.0.
GenThresholds == {F32Lit(85), F32One}

\* Generator::new: the scorer is ConfidenceScorer::new(threshold), whose
\* logger is FeedbackLogger::new().ok(), and the logger is
\* FeedbackLogger::new()?; config.feedback_log_path is not read.
GeneratorNew(config) ==
    [config EXCEPT !.has_logger = TRUE,
                   !.log_path = default_log_path,
                   !.scorer_log_path = default_log_path]

\* The generator is built from configurations with the preprocessing
\* switches and the thresholds on the default log path, and from one with a
\* log path set.
InitGen ==
    /\ cfg \in {GeneratorNew(config) : config \in
                 {[DefaultCfg EXCEPT !.normalize_resolution = n,
                                     !.cleanup_enabled = c,
                                     !.auto_accept_threshold = t] :
                     n \in BOOLEAN, c \in BOOLEAN, t \in GenThresholds}
                 \cup {[DefaultCfg EXCEPT
                           !.feedback_log_path = Some("custom/feedback.jsonl")]}}
    /\ file = <<>>
    /\ ret = NoRet
    /\ wpc = IdleWriters
    /\ went = NoWrites
    /\ gen = NoGen
    /\ poll = NoPoll

\* Scores at, one unit in the last place below, and around the thresholds
ProbeScores ==
    {F32Lit(85), F32Lit(85) - Pow2(4), F32Lit(90), F32One, F32One - Pow2(4), 0}

NextGen ==
    \/ \E r \in GenRequests : GenBegin(r.a, r.b, 2, r.character, r.motion_type)
    \/ \E answer \in ApiAnswers : GenCallApi(answer)
    \/ GenScoreFrame
    \/ \E io \in BOOLEAN : GenLogAndReturn(io)
    \/ \E io \in BOOLEAN : AcceptFrame(1, "hero", "walk", FALSE, io)
    \/ \E io \in BOOLEAN : RejectFrame(1, "hero", "walk", <<"blur">>, io)
    \/ \E score \in ProbeScores : ShouldAutoAccept(score)

SpecGen == InitGen /\ [][NextGen]_vars

(***************************************************************************)
(* api.rs: generate_via_replicate from the creation of the prediction to   *)
(* its return. Time is in whole seconds since start_time; a sleep and a    *)
(* request take at least their nominal time.                               *)
(***************************************************************************)
PollInterval == 2
PollRequestTimeout == 30

TimeoutSecs == {0, 3, 6}
CreateAnswers == {"RequestFailed", "ApiError", "Parse", "created"}
Statuses == {"starting", "processing", "succeeded", "failed", "canceled", "queued"}
Outputs == {"none", "empty", "urls"}

\* What a poll request comes back with: no response, a body that is no
\* ReplicatePrediction, or a prediction.
PollAnswers ==
    {[kind |-> k, status |-> "", output |-> "none", download_ok |-> FALSE] :
        k \in {"RequestFailed", "Parse"}}
    \cup {[kind |-> "prediction", status |-> st, output |-> "none",
            download_ok |-> FALSE] : st \in Statuses \ {"succeeded"}}
    \cup {[kind |-> "prediction", status |-> "succeeded", output |-> o,
            download_ok |-> d] : o \in Outputs, d \in BOOLEAN}

\* The test at the top of the loop, passed four seconds late
TimedOutLate(elapsed, timeout_secs) == elapsed > timeout_secs + 2 * PollInterval

\* start_time.elapsed() > timeout
TimedOut(elapsed, timeout_secs) == elapsed > timeout_secs

\* process_output: no output, or one holding no URL, is NoFramesExtracted;
\* the frames are those downloaded (and extracted), if that succeeds.
process_output(output, download_ok) ==
    IF output # "urls" THEN "NoFramesExtracted"
    ELSE IF download_ok THEN "frames" ELSE "DownloadFailed"

PollReturn(p, outcome) ==
    /\ poll' = [p EXCEPT !.pc = "done", !.outcome = outcome]
    /\ ret' = Ret("generate_via_replicate", <<>>, outcome = "frames", outcome)

\* The POST that creates the prediction; lag is the time from start_time to
\* the first test of the loop.
CreatePrediction(timeout_secs, answer, lag) ==
    /\ poll.pc \in {"idle", "done"}
    /\ IF answer = "created"
       THEN /\ poll' = [NoPoll EXCEPT !.pc = "top", !.timeout_secs = timeout_secs,
                                      !.elapsed = lag]
            /\ ret' = NoRet
       ELSE PollReturn([NoPoll EXCEPT !.timeout_secs = timeout_secs], answer)
    /\ UNCHANGED <<cfg, file, wpc, went, gen>>

\* if start_time.elapsed() > timeout { return Err(Timeout) }
LoopTop ==
    /\ poll.pc = "top"
    /\ IF TimedOut(poll.elapsed, poll.timeout_secs)
       THEN PollReturn(poll, "Timeout")
       ELSE poll' = [poll EXCEPT !.pc = "sleep"] /\ UNCHANGED ret
    /\ UNCHANGED <<cfg, file, wpc, went, gen>>

\* thread::sleep(Duration::from_secs(2))
Sleep(overrun) ==
    /\ poll.pc = "sleep"
    /\ poll' = [poll EXCEPT !.pc = "get", !.elapsed = @ + PollInterval + overrun]
    /\ UNCHANGED <<cfg, file, ret, wpc, went, gen>>

\* The GET of the prediction, the parse of its body and the match on the
\* status.
PollGet(answer, latency) ==
    LET p == [poll EXCEPT !.elapsed = @ + latency, !.polls = @ + 1,
                          !.status = answer.status, !.output = answer.output,
                          !.download_ok = answer.download_ok] IN
    /\ poll.pc = "get"
    /\ IF answer.kind # "prediction" THEN PollReturn(p, answer.kind)
       ELSE IF answer.status = "succeeded"
       THEN PollReturn(p, process_output(answer.output, answer.download_ok))
       ELSE IF answer.status \in {"failed", "canceled"}
       THEN PollReturn(p, "PredictionFailed")
       ELSE poll' = [p EXCEPT !.pc = "top"] /\ UNCHANGED ret
    /\ UNCHANGED <<cfg, file, wpc, went, gen>>

InitPoll ==
    /\ cfg = DefaultCfg
    /\ file = <<>>
    /\ ret = NoRet
    /\ wpc = IdleWriters
    /\ went = NoWrites
    /\ gen = NoGen
    /\ poll = NoPoll

PollStep ==
    \/ LoopTop
    \/ \E overrun \in {0, 1} : Sleep(overrun)
    \/ \E answer \in PollAnswers, latency \in {0, 1, PollRequestTimeout} :
          PollGet(answer, latency)

NextPoll ==
    \/ \E timeout_secs \in TimeoutSecs, answer \in CreateAnswers, lag \in {0, 1} :
          CreatePrediction(timeout_secs, answer, lag)
    \/ PollStep

SpecPoll == InitPoll /\ [][NextPoll]_vars

\* The thread runs on: the test, the sleep and the request each complete
\* (the request within its timeout of 30 seconds).
SpecPollLive == SpecPoll /\ WF_vars(PollStep)

(***************************************************************************)
(* Properties of the feedback log (Spec).                                  *)
(***************************************************************************)
\* The entries of the file as a reader that skips every unusable line sees
\* them: the positions of the lines holding exactly one serialised entry.
EntryLines(f) == {i \in 1..Len(Lines(f)) : LineParses(Lines(f)[i])}
EntryAt(f, i) == Lines(f)[i][1].e

\* The accept (or reject) entries of the file that a query for (character,
\* motion type) selects, counted without the loop of get_acceptance_rate.
Selected(f, event, character, motion_type) ==
    {i \in EntryLines(f) :
        /\ EntryAt(f, i).event = event
        /\ (character = None \/ EntryAt(f, i).character = character[1])
        /\ (motion_type = None \/ EntryAt(f, i).motion_type = motion_type[1])}

AcceptsOf(q) == Cardinality(Selected(file, "accept", q.character, q.motion_type))
RejectsOf(q) == Cardinality(Selected(file, "reject", q.character, q.motion_type))

LogOps == {"log_generation", "log_acceptance", "log_rejection"}
QueryOps == {"get_acceptance_rate", "get_stats"}
EventOf(op) ==
    IF op = "log_generation" THEN "generation"
    ELSE IF op = "log_acceptance" THEN "accept" ELSE "reject"

C5_Step ==
    /\ Len(file') >= Len(file) /\ SubSeq(file', 1, Len(file)) = file
    /\ (ret'.op \in LogOps /\ ret'.ok) =>
          /\ Len(file') = Len(file) + 2
          /\ file'[Len(file) + 1].k = "json"
          /\ file'[Len(file) + 1].e.event = EventOf(ret'.op)
          /\ file'[Len(file) + 2] = NlChunk
          /\ (EndsLine(file) /\ read_entries(file).ok) =>
                read_entries(file').entries =
                    Append(read_entries(file).entries, file'[Len(file) + 1].e)
    /\ (ret'.op \in LogOps /\ ~ret'.ok) => file' = file
    /\ ret'.op \in QueryOps => file' = file

\* C5: the log only grows at its end: every step keeps what the file held; a
\* log_generation, log_acceptance or log_rejection that succeeds appends
\* exactly one entry of its event (and one that fails appends nothing); a
\* query leaves the file as it was.
C5_AppendOnly == [][C5_Step]_vars

\* A rejection appended after an earlier entry: the log reads as two entries.
C5_Witness ==
    /\ ret.op = "log_rejection" /\ ret.ok
    /\ read_entries(file).ok
    /\ Len(read_entries(file).entries) = 2
    /\ read_entries(file).entries[2].event = "reject"

\* C7: reading never fails because of what a line holds: get_acceptance_rate
\* and get_stats succeed whatever lines the file has.
C7_ReadNeverFails == ret.op \in QueryOps => ret.ok

\* What does hold: the lines that are text but no entry are skipped.
C7_TextLinesSkipped ==
    (ret.op \in QueryOps /\ \A i \in 1..Len(Lines(file)) : LineIsUtf8(Lines(file)[i]))
        => ret.ok

(***************************************************************************)
(* Properties of the scorer (SpecScore).                                   *)
(***************************************************************************)
PenaltySum(p) == p.validity + p.complexity + p.historical + p.consistency

\* C1: whatever the generated frame, the sources (0 x 0 images and sources of
\* different sizes included), the character and the log hold, score_frame
\* returns a score within [0, 1].
C1_ScoreInRange ==
    ret.op = "score_frame" =>
        (ret.ok /\ ret.val.score >= 0 /\ ret.val.score <= F32One)

\* A 0 x 0 generated frame between sources of different sizes, scored over a
\* log of rejections: the penalties add up to more than 1 and the score is 0.
C1_Witness ==
    /\ ret.op = "score_frame"
    /\ ret.arg.generated.width = 0
    /\ ret.arg.source_a.width # ret.arg.source_b.width
    /\ PenaltySum(ret.val.penalties) > F32One
    /\ ret.val.score = 0

\* C2: the historical penalty is 0 when the scorer has no feedback
\* aggregator, and also when the log holds no accept or reject event of the
\* queried (character, motion type).
C2_NoHistoryNoPenalty ==
    (/\ ret.op = "score_frame"
     /\ \/ ~cfg.has_logger
        \/ /\ Selected(file, "accept", ret.arg.character,
                       Some(ret.arg.motion_type)) = {}
           /\ Selected(file, "reject", ret.arg.character,
                       Some(ret.arg.motion_type)) = {})
        => ret.val.penalties.historical = 0

\* The half of C2 that holds: no aggregator, no historical penalty.
C2_NoAggregatorNoPenalty ==
    (ret.op = "score_frame" /\ ~cfg.has_logger) => ret.val.penalties.historical = 0

(***************************************************************************)
(* Properties of the geometry normaliser (SpecGeom).                       *)
(***************************************************************************)
\* C8: for every original size and target above 0, get_padding_info returns
\* offsets and a scaled size with x_offset + scaled_width <= target and
\* y_offset + scaled_height <= target, and neither target - scaled_width nor
\* target - scaled_height underflows.
C8_PaddingFits ==
    ret.op = "get_padding_info" =>
        /\ ret.ok
        /\ ret.val.scaled_width <= cfg.target_resolution
        /\ ret.val.scaled_height <= cfg.target_resolution
        /\ ret.val.x_offset <= cfg.target_resolution - ret.val.scaled_width
        /\ ret.val.y_offset <= cfg.target_resolution - ret.val.scaled_height

\* C9: normalizing an image of any size to any target above 0 gives a
\* target x target bitmap, and restore_original_size of it with the padding
\* of get_padding_info gives a bitmap of the original size.
C9_RoundTrip ==
    ret.op = "roundtrip" =>
        /\ ret.ok
        /\ ret.val.processed.width = cfg.target_resolution
        /\ ret.val.processed.height = cfg.target_resolution
        /\ ret.val.restored.width = ret.arg[1]
        /\ ret.val.restored.height = ret.arg[2]

(***************************************************************************)
(* Properties of concurrent appends (SpecAppend).                          *)
(***************************************************************************)
\* The records written to the file, in the order they reached it
IsRecord(chunk) == chunk.k = "json"
Records(f) == SelectSeq(f, IsRecord)

\* C6: appends from several processes are safe: once no append is under way
\* every line of the file is one well-formed record, and a read returns
\* every record written.
C6_AtomicLines ==
    InFlight = {} =>
        /\ \A i \in 1..Len(Lines(file)) : LineParses(Lines(file)[i])
        /\ read_entries(file).ok
        /\ read_entries(file).entries =
              [i \in 1..Len(Records(file)) |-> Records(file)[i].e]

(***************************************************************************)
(* Properties of the generator (SpecGen).                                  *)
(***************************************************************************)
Returned == ret.op = "generate_inbetweens" /\ ret.ok

\* C3: should_auto_accept(score) is true exactly when score >= the
\* threshold, and every ScoredFrame generate_inbetweens returns has
\* auto_accept = (score >= the threshold of the result's metadata).
C3_AutoAccept ==
    /\ ret.op = "should_auto_accept" =>
          (ret.val <=> ret.arg >= cfg.auto_accept_threshold)
    /\ Returned =>
          \A i \in 1..Len(ret.val.frames) :
              ret.val.frames[i].auto_accept <=>
                  ret.val.frames[i].score >= ret.val.metadata.auto_accept_threshold

\* A result whose first frame scores exactly the threshold and is accepted,
\* and whose second scores below it and is not.
C3_Witness ==
    /\ Returned
    /\ Len(ret.val.frames) = 2
    /\ ret.val.frames[1].score = ret.val.metadata.auto_accept_threshold
    /\ ret.val.frames[1].auto_accept
    /\ ret.val.frames[2].score < ret.val.metadata.auto_accept_threshold
    /\ ~ret.val.frames[2].auto_accept

\* C10: a successful generate_inbetweens returns one ScoredFrame per frame
\* the collaborator returned, the i-th built from the i-th returned frame,
\* and the confidence_scores and auto_accept lists of OutputMetadata run
\* parallel to the frames.
C10_FramesInOrder ==
    Returned =>
        /\ Len(ret.val.frames) = Len(gen.generated)
        /\ \A i \in 1..Len(gen.generated) :
              ret.val.frames[i] = ScoreOne(cfg, gen.log_before, gen, gen.generated[i])
        /\ Len(OutputMetadata(ret.val).confidence_scores) = Len(ret.val.frames)
        /\ Len(OutputMetadata(ret.val).auto_accept) = Len(ret.val.frames)
        /\ \A i \in 1..Len(ret.val.frames) :
              /\ OutputMetadata(ret.val).confidence_scores[i] = ret.val.frames[i].score
              /\ OutputMetadata(ret.val).auto_accept[i] = ret.val.frames[i].auto_accept

\* Two different frames returned, scored differently, in the order returned.
C10_Witness ==
    /\ Returned
    /\ gen.generated = <<White2, Empty>>
    /\ Len(ret.val.frames) = 2
    /\ ret.val.frames[1].score > ret.val.frames[2].score
    /\ OutputMetadata(ret.val).confidence_scores =
          <<ret.val.frames[1].score, ret.val.frames[2].score>>

\* How a request that failed ended: in image::open, in the collaborator, or
\* in log_generation.
Failed == ret.op = "generate_inbetweens" /\ ~ret.ok
DecodeFailed == Failed /\ ret.val = "load"
CollaboratorFailed == Failed /\ ret.val \in {a.err : a \in {b \in ApiAnswers : ~b.ok}}
LogFailed == Failed /\ ret.val = "log"

\* C11: a request that fails decoding a source or in the collaborator returns
\* that error and no frames, has asked the collaborator at most once (not at
\* all after a decode failure, once after a collaborator failure), and has
\* appended nothing to the feedback log.
C11_FailurePropagates ==
    /\ DecodeFailed =>
          /\ gen.api_calls = 0
          /\ gen.scored_frames = <<>>
          /\ file = gen.log_before
    /\ CollaboratorFailed =>
          /\ gen.api_calls = 1
          /\ gen.scored_frames = <<>>
          /\ file = gen.log_before
    /\ gen.api_calls <= 1

\* A request whose collaborator call timed out, made over a log that already
\* held nothing more than it holds now.
C11_Witness ==
    /\ CollaboratorFailed
    /\ ret.val = "timeout"
    /\ gen.api_calls = 1
    /\ gen.cleaned_a # NoImage

\* The generation event a request appends
GenerationEventOf(g) ==
    GenerationEntry(IF g.character = None THEN "unknown" ELSE g.character[1],
                    g.detected_motion, g.num_frames)

\* C12: a successful request appends exactly one generation event, and only
\* once every returned frame is scored: while the request loads, calls and
\* scores the log is as it found it, and at the return the log is that log
\* followed by one event carrying the request's character ("unknown" when
\* none was given) and the motion type used for scoring.
C12_OneGenerationEvent ==
    /\ gen.pc \in {"ready", "scoring"} => file = gen.log_before
    /\ Returned =>
          /\ Len(gen.scored_frames) = Len(gen.generated)
          /\ file = gen.log_before \o <<JsonChunk(GenerationEventOf(gen)), NlChunk>>

\* A request without a character, answered with two frames, logged as
\* "unknown".
C12_Witness ==
    /\ Returned
    /\ gen.character = None
    /\ Len(gen.scored_frames) = 2
    /\ read_entries(file).entries[Len(read_entries(file).entries)].character = "unknown"
    /\ read_entries(file).entries[Len(read_entries(file).entries)].event = "generation"

\* C13: a failure to append the generation event does not undo the
\* generation: a request whose sources decoded and whose collaborator
\* answered with frames returns them, so a request fails in decoding or in
\* the collaborator only.
C13_LogFailureNotFatal == Failed => (DecodeFailed \/ CollaboratorFailed)

\* C14: with normalize_resolution on, every frame of a result has the width
\* and height source A had when it was loaded, whatever the size of the
\* collaborator's frame; with it off, every frame of the result is the
\* collaborator's frame as it came.
C14_FramesAtOriginalSize ==
    Returned =>
        /\ Len(ret.val.frames) = Len(gen.generated)
        /\ ret.val.metadata.original_width = gen.img_a.width
        /\ ret.val.metadata.original_height = gen.img_a.height
        /\ \A i \in 1..Len(ret.val.frames) :
              IF cfg.normalize_resolution
              THEN /\ ret.val.frames[i].frame.width = gen.img_a.width
                   /\ ret.val.frames[i].frame.height = gen.img_a.height
              ELSE ret.val.frames[i].frame = gen.generated[i]

\* Normalisation on, a 1x2 source A, and a collaborator that answered with a
\* 0x0 and a 2x2 frame: both come back 1x2.
C14_Witness ==
    /\ Returned
    /\ cfg.normalize_resolution
    /\ gen.img_a = Tall
    /\ gen.generated = <<Empty, White2>>
    /\ ret.val.frames[1].frame.width = 1 /\ ret.val.frames[1].frame.height = 2
    /\ ret.val.frames[2].frame.width = 1 /\ ret.val.frames[2].frame.height = 2

\* The last entry of the log
LastEntry(f) == read_entries(f).entries[Len(read_entries(f).entries)]

\* The motion type a request is to use: the caller's, or else the one
\* detected on the two processed sources.
MotionTypeToUse ==
    IF gen.motion_type # None THEN gen.motion_type[1]
    ELSE detect_motion_type(gen.cleaned_a, gen.cleaned_b)

\* C15: a motion type the caller supplied is the one used for scoring, in the
\* logged event and in the result metadata, whatever detection would say;
\* without one, all three use detect_motion_type of the two processed
\* sources. The metadata of a result always carries a motion type.
C15_MotionTypeUsed ==
    /\ gen.pc \in {"ready", "scoring"} => gen.detected_motion = MotionTypeToUse
    /\ Returned =>
          /\ ret.val.metadata.motion_type = Some(MotionTypeToUse)
          /\ ret.val.metadata.motion_type # None
          /\ LastEntry(file).event = "generation"
          /\ LastEntry(file).motion_type = MotionTypeToUse
          /\ \A i \in 1..Len(ret.val.frames) :
                ret.val.frames[i].score =
                    score_frame(cfg.has_logger, gen.log_before, gen.generated[i],
                                gen.cleaned_a, gen.cleaned_b, MotionTypeToUse,
                                gen.character)

\* A request made with "walk" for two identical sources, which detection
\* would call static: the result and the log say "walk", and the first frame
\* has the score the history of "walk" gives it, not the one of "static".
C15_Witness ==
    /\ Returned
    /\ gen.motion_type = Some("walk")
    /\ detect_motion_type(gen.cleaned_a, gen.cleaned_b) = "static"
    /\ ret.val.metadata.motion_type = Some("walk")
    /\ LastEntry(file).motion_type = "walk"
    /\ Len(ret.val.frames) > 0
    /\ ret.val.frames[1].score #
          score_frame(cfg.has_logger, gen.log_before, gen.generated[1],
                      gen.cleaned_a, gen.cleaned_b, "static", gen.character)

\* A request made without a motion type whose sources differ in every pixel
C15_WitnessDetected ==
    /\ Returned
    /\ gen.motion_type = None
    /\ ret.val.metadata.motion_type = Some("dynamic")

(***************************************************************************)
(* Properties of the motion classifier (SpecScore).                        *)
(***************************************************************************)
\* The pixel difference of the pair detect_motion_type was called with, as a
\* fraction <<num, den>>
DiffOfCall == calculate_pixel_difference(ret.arg[1], ret.arg[2])

\* C16: detect_motion_type returns one of static, subtle, normal, dynamic,
\* fixed by d = the pixel difference of the pair alone: static when
\* d < 0.05, subtle when 0.05 <= d < 0.15, normal when 0.15 <= d < 0.3,
\* dynamic when d >= 0.3, whatever the scorer's threshold, its logger and
\* the log.
C16_MotionBands ==
    ret.op = "detect_motion_type" =>
        /\ ret.val \in {"static", "subtle", "normal", "dynamic"}
        /\ ret.val = "static" <=> 100 * DiffOfCall[1] < 5 * DiffOfCall[2]
        /\ ret.val = "subtle" <=>
              /\ 100 * DiffOfCall[1] >= 5 * DiffOfCall[2]
              /\ 100 * DiffOfCall[1] < 15 * DiffOfCall[2]
        /\ ret.val = "normal" <=>
              /\ 100 * DiffOfCall[1] >= 15 * DiffOfCall[2]
              /\ 10 * DiffOfCall[1] < 3 * DiffOfCall[2]
        /\ ret.val = "dynamic" <=> 10 * DiffOfCall[1] >= 3 * DiffOfCall[2]

\* A pair whose difference is exactly 0.3 (306 of 1020), called dynamic, with
\* a log that holds entries.
C16_Witness ==
    /\ ret.op = "detect_motion_type"
    /\ ret.arg = <<Probe(0), Probe(306)>>
    /\ DiffOfCall = <<306, 1020>>
    /\ ret.val = "dynamic"
    /\ file # <<>>

\* The other breakpoints and their lower neighbours
C16_WitnessBreakpoints ==
    /\ detect_motion_type(Probe(0), Probe(50)) = "static"
    /\ detect_motion_type(Probe(0), Probe(51)) = "subtle"
    /\ detect_motion_type(Probe(0), Probe(152)) = "subtle"
    /\ detect_motion_type(Probe(0), Probe(153)) = "normal"
    /\ detect_motion_type(Probe(0), Probe(305)) = "normal"

\* Every pixel of the image has alpha 255
FullyOpaque(img) == \A i \in 1..Len(img.px) : img.px[i][4] = 255

\* The log holds no accept and no reject entry the call's (character, motion
\* type) selects
NoMatchingFeedback ==
    /\ Selected(file, "accept", ret.arg.character, Some(ret.arg.motion_type)) = {}
    /\ Selected(file, "reject", ret.arg.character, Some(ret.arg.motion_type)) = {}

\* score_frame called with a generated frame and two sources that are one
\* and the same fully opaque image
IdenticalOpaqueCall ==
    /\ ret.op = "score_frame"
    /\ ret.arg.source_a = ret.arg.source_b
    /\ ret.arg.generated = ret.arg.source_a
    /\ FullyOpaque(ret.arg.source_a)
    /\ NoMatchingFeedback

\* The half of C17 about the sources alone: two identical sources have
\* pixel difference 0, motion-complexity penalty 0 and motion type static.
C17_IdenticalSourcesStatic ==
    /\ (ret.op = "score_frame" /\ ret.arg.source_a = ret.arg.source_b) =>
          /\ calculate_pixel_difference(ret.arg.source_a, ret.arg.source_b)[1] = 0
          /\ ret.val.penalties.complexity = 0
    /\ (ret.op = "detect_motion_type" /\ ret.arg[1] = ret.arg[2]) =>
          /\ DiffOfCall[1] = 0
          /\ ret.val = "static"

\* C17: two identical sources have pixel difference 0, motion-complexity
\* penalty 0 and motion type static; if they are fully opaque, the generated
\* frame equals them and the log holds no matching feedback, the score is at
\* least 0.5.
C17_IdenticalSources ==
    /\ C17_IdenticalSourcesStatic
    /\ IdenticalOpaqueCall => ret.val.score >= F32Lit(50)

\* With at least one pixel the bound holds, and so it does for a scorer
\* without a logger.
C17_NonEmptyOrNoLogger ==
    (IdenticalOpaqueCall /\ (ret.arg.source_a.width > 0 \/ ~cfg.has_logger))
        => ret.val.score >= F32Lit(50)

\* The two images differ in width or in height
SizesDiffer(img_a, img_b) ==
    img_a.width # img_b.width \/ img_a.height # img_b.height

\* C18: for two images that differ in width or height the pixel difference
\* is exactly 0.5 and no pixel is read (it is returned for images whose
\* pixels are not there to read); the motion-complexity penalty of such a
\* source pair is 0.35 and detect_motion_type calls it dynamic.
C18_SizeMismatch ==
    /\ (ret.op = "score_frame" /\ SizesDiffer(ret.arg.source_a, ret.arg.source_b)) =>
          /\ calculate_pixel_difference(ret.arg.source_a, ret.arg.source_b) = <<1, 2>>
          /\ ret.val.penalties.complexity = F32Lit(35)
    /\ (ret.op = "detect_motion_type" /\ SizesDiffer(ret.arg[1], ret.arg[2])) =>
          /\ DiffOfCall = <<1, 2>>
          /\ ret.val = "dynamic"

\* Two images of three pixels each, 3x1 and 1x3, known by their size alone
C18_Witness ==
    /\ ret.op = "detect_motion_type"
    /\ ret.arg = <<Sized(3, 1), Sized(1, 3)>>
    /\ ~HasPixels(ret.arg[1]) /\ ~HasPixels(ret.arg[2])
    /\ ret.val = "dynamic"

\* A 1x2 and a 2x2 source, all white: the penalty is 0.35
C18_WitnessPenalty ==
    /\ ret.op = "score_frame"
    /\ ret.arg.source_a = Tall /\ ret.arg.source_b = White2
    /\ ret.val.penalties.complexity = F32Lit(35)

\* The four penalties added up in f32, in the order score_frame meets them
PenaltySumF32(p) ==
    F32Add(F32Add(F32Add(p.validity, p.complexity), p.historical), p.consistency)

\* Each penalty of a score_frame call is the one its own inputs give:
\* validity the generated frame, motion complexity the two sources,
\* historical the (character, motion type) and the log, colour consistency
\* the three images.
PenaltiesIndependent ==
    /\ ret.val.penalties.validity = check_image_validity(ret.arg.generated)
    /\ ret.val.penalties.complexity =
          assess_motion_complexity(ret.arg.source_a, ret.arg.source_b)
    /\ ret.val.penalties.historical =
          check_historical_success(cfg.has_logger, file, ret.arg.motion_type,
                                   ret.arg.character)
    /\ ret.val.penalties.consistency =
          check_color_consistency(ret.arg.generated, ret.arg.source_a,
                                  ret.arg.source_b)

\* C20 as stated: the score is 1.0 minus the sum of the four penalties,
\* clamped to [0, 1], and the penalties are independent.
C20_ScoreIsOneMinusSum ==
    ret.op = "score_frame" =>
        /\ PenaltiesIndependent
        /\ ret.val.score = Clamp01(F32Sub(F32One, PenaltySumF32(ret.val.penalties)))

\* The same with the sum and the difference taken without rounding
C20_ScoreIsOneMinusExactSum ==
    ret.op = "score_frame" =>
        ret.val.score = Clamp01(F32One - PenaltySum(ret.val.penalties))

\* C20: the score is 1.0 with the four penalties subtracted one after the
\* other in f32 (validity, motion complexity, historical, colour
\* consistency), clamped to [0, 1]; it is within 2^-23 of 1.0 minus their
\* sum, clamped; and the penalties are independent.
C20_ScoreFusion ==
    ret.op = "score_frame" =>
        /\ PenaltiesIndependent
        /\ ret.val.score =
              Clamp01(F32Sub(F32Sub(F32Sub(F32Sub(F32One, ret.val.penalties.validity),
                                           ret.val.penalties.complexity),
                                    ret.val.penalties.historical),
                             ret.val.penalties.consistency))
        /\ Abs(ret.val.score - Clamp01(F32One - PenaltySum(ret.val.penalties)))
              <= Pow2(5)

\* A call whose score, taken penalty by penalty, is not the f32 nearest to
\* 1.0 minus the sum of the penalties.
C20_Witness ==
    /\ ret.op = "score_frame"
    /\ ret.val.penalties.complexity > 0
    /\ ret.val.penalties.historical > 0
    /\ ret.val.score > 0
    /\ ret.val.score # Clamp01(F32Sub(F32One, PenaltySumF32(ret.val.penalties)))

(***************************************************************************)
(* Properties of the generator's log path (SpecGen).                       *)
(***************************************************************************)
\* A call of the generator that appended to its log
Logged ==
    /\ ret.ok
    /\ ret.op \in {"generate_inbetweens", "accept_frame", "reject_frame"}

\* C19: with feedback_log_path set, the generator's generation, accept and
\* reject events go to that file and the scorer's historical queries read
\* it; the default path is used only when feedback_log_path is None.
C19_ConfiguredLogPath ==
    (Logged /\ cfg.feedback_log_path # None) =>
        /\ cfg.log_path = cfg.feedback_log_path[1]
        /\ cfg.scorer_log_path = cfg.feedback_log_path[1]

\* What holds: whatever the configuration says, both loggers are on the
\* default path.
C19_AlwaysDefaultPath ==
    cfg.log_path = default_log_path /\ cfg.scorer_log_path = default_log_path

(***************************************************************************)
(* Properties of the single penalties (SpecScore).                         *)
(***************************************************************************)
\* The query check_historical_success makes for a score_frame call
HistoryQuery == [character |-> ret.arg.character,
                 motion_type |-> Some(ret.arg.motion_type)]

\* The rate the aggregator returns for that query, as the fraction
\* <<num, den>>: accepts over accepts and rejects, 1/2 when there is none.
RateOfCall ==
    IF AcceptsOf(HistoryQuery) + RejectsOf(HistoryQuery) = 0 THEN <<1, 2>>
    ELSE <<AcceptsOf(HistoryQuery), AcceptsOf(HistoryQuery) + RejectsOf(HistoryQuery)>>

\* The penalty C21 gives the rate <<num, den>>
BandOfRate(r) ==
    IF 10 * r[1] < 3 * r[2] THEN F32Lit(35)
    ELSE IF 10 * r[1] < 5 * r[2] THEN F32Lit(25)
    ELSE IF 10 * r[1] < 7 * r[2] THEN F32Lit(10)
    ELSE 0

\* The rates met: those of the seed logs, 0, 1/2 and 1
RatesMet == {<<0, 1>>, <<1, 5>>, <<3, 10>>, <<2, 5>>, <<1, 2>>, <<2, 3>>, <<7, 10>>,
             <<1, 1>>}

\* C21: with a rate r returned by the aggregator for the call's (character,
\* motion type), the historical penalty is 0.35 when r < 0.3, 0.25 when
\* 0.3 <= r < 0.5, 0.1 when 0.5 <= r < 0.7 and 0 when r >= 0.7, whatever the
\* images and the other penalties are; r = 0.2 gives 0.35; and a higher rate
\* never has a higher penalty.
C21_HistoricalBands ==
    (ret.op = "score_frame" /\ cfg.has_logger /\ read_entries(file).ok) =>
        /\ ret.val.penalties.historical = BandOfRate(RateOfCall)
        /\ RateOfCall = <<1, 5>> => ret.val.penalties.historical = F32Lit(35)
        /\ \A r \in RatesMet :
              r[1] * RateOfCall[2] <= RateOfCall[1] * r[2]
                  => BandOfRate(r) >= ret.val.penalties.historical

\* A rate of 0.2 (one accept, four rejects) and a frame whose other penalties
\* are not all 0: the historical penalty is 0.35.
C21_Witness ==
    /\ ret.op = "score_frame" /\ cfg.has_logger
    /\ AcceptsOf(HistoryQuery) = 1 /\ RejectsOf(HistoryQuery) = 4
    /\ ret.val.penalties.historical = F32Lit(35)
    /\ ret.val.penalties.validity > 0
    /\ ret.val.penalties.complexity > 0

\* The rate exactly 0.3 takes the 0.25 band and exactly 0.7 takes 0
C21_WitnessBoundary ==
    /\ ret.op = "score_frame" /\ cfg.has_logger
    /\ AcceptsOf(HistoryQuery) = 3 /\ RejectsOf(HistoryQuery) = 7
    /\ ret.val.penalties.historical = F32Lit(25)

\* The penalty C22 gives the difference <<num, den>>
BandOfDiff(d) ==
    IF 10 * d[1] > 4 * d[2] THEN F32Lit(35)
    ELSE IF 10 * d[1] > 3 * d[2] THEN F32Lit(25)
    ELSE IF 10 * d[1] > 2 * d[2] THEN F32Lit(15)
    ELSE IF 10 * d[1] > 1 * d[2] THEN F32Lit(5)
    ELSE 0

\* The differences met
DiffsMet == {calculate_pixel_difference(i[1], i[2]) : i \in MotionInputs}

\* C22: the motion-complexity penalty is a step function of the pixel
\* difference d of the two sources alone: 0.35 when d > 0.4, 0.25 when
\* 0.3 < d <= 0.4, 0.15 when 0.2 < d <= 0.3, 0.05 when 0.1 < d <= 0.2 and 0
\* when d <= 0.1; a larger d never has a smaller penalty; the generated
\* frame has no part in it.
C22_MotionComplexitySteps ==
    /\ ret.op = "assess_motion_complexity" =>
          /\ ret.val = BandOfDiff(DiffOfCall)
          /\ \A d \in DiffsMet :
                d[1] * DiffOfCall[2] <= DiffOfCall[1] * d[2] => BandOfDiff(d) <= ret.val
    /\ ret.op = "score_frame" =>
          ret.val.penalties.complexity =
              BandOfDiff(calculate_pixel_difference(ret.arg.source_a, ret.arg.source_b))

\* A pair whose difference is 409 of 1020, just above 0.4: the penalty is 0.35
C22_Witness ==
    /\ ret.op = "assess_motion_complexity"
    /\ ret.arg = <<Probe(0), Probe(409)>>
    /\ DiffOfCall = <<409, 1020>>
    /\ ret.val = F32Lit(35)

\* The thresholds themselves take the lower step
C22_WitnessThresholds ==
    /\ assess_motion_complexity(Probe(0), Probe(408)) = F32Lit(25)
    /\ assess_motion_complexity(Probe(0), Probe(306)) = F32Lit(15)
    /\ assess_motion_complexity(Probe(0), Probe(204)) = F32Lit(5)
    /\ assess_motion_complexity(Probe(0), Probe(102)) = 0
    /\ assess_motion_complexity(Probe(0), Probe(103)) = F32Lit(5)

\* Two score_frame inputs with the same sources and different generated
\* frames
SameSourcesOtherFrame ==
    \E i, j \in ScoreInputs :
        /\ i[2] = j[2] /\ i[3] = j[3] /\ i[1] # j[1]
        /\ assess_motion_complexity(i[2], i[3]) > 0

\* The pixels of an image with alpha above 128, and the sum of all alphas
OpaquePixels(img) == Cardinality({i \in 1..Len(img.px) : img.px[i][4] > AlphaThreshold})
AlphaSum(img) == SumSeq([i \in 1..Len(img.px) |-> img.px[i][4]])

\* The validity penalty C23 gives an image all of whose pixels are sampled
ValidityOf(img) ==
    IF img.width = 0 \/ img.height = 0 THEN F32Lit(50)
    ELSE IF 10 * OpaquePixels(img) < Len(img.px) THEN F32Lit(40)
    ELSE IF AlphaSum(img) < LowAlpha * Len(img.px) THEN F32Lit(20)
    ELSE 0

\* C23: the validity penalty is 0.5 for an image of width or height 0;
\* otherwise 0.4 when fewer than 10% of the sampled pixels have alpha > 128;
\* otherwise 0.2 when their mean alpha is below 50; otherwise 0; for images
\* of every size, those of fewer than 10 pixels included. (Images of at most
\* 1000 pixels: every pixel is sampled.)
C23_ValidityBands ==
    ret.op = "check_image_validity" => ret.val = ValidityOf(ret.arg)

\* What holds: the bands are kept when the number of sampled pixels is a
\* multiple of 10, and an image without pixels gets 0.5.
C23_ValidityBandsInTens ==
    (ret.op = "check_image_validity" /\ Len(ret.arg.px) % 10 = 0)
        => ret.val = ValidityOf(ret.arg)

\* C24: for an image of any pixel count the sampling loops visit no more
\* pixels than their cap, 500 in calculate_image_stats and in
\* calculate_pixel_difference and 1000 in check_image_validity, and the mean
\* alpha of the validity check is the alpha sum over the number of pixels
\* visited.
C24_SamplesWithinCap ==
    ret.op = "samples" =>
        /\ ret.val.stats <= StatsCap
        /\ ret.val.difference <= StatsCap
        /\ ret.val.validity <= ValidityCap
        /\ ret.val.avg_alpha_divisor = ret.val.validity

\* What holds: up to the cap and at whole multiples of it the loops visit
\* min(pixels, cap) pixels; in between they visit fewer than twice the cap.
C24_SamplesWithinTwiceCap ==
    ret.op = "samples" =>
        /\ ret.val.stats < 2 * StatsCap
        /\ ret.val.validity < 2 * ValidityCap
        /\ (ret.arg <= ValidityCap \/ ret.arg % ValidityCap = 0) =>
              /\ ret.val.validity = Min(ret.arg, ValidityCap)
              /\ ret.val.avg_alpha_divisor = ret.val.validity
        /\ (ret.arg <= StatsCap \/ ret.arg % StatsCap = 0) =>
              ret.val.stats = Min(ret.arg, StatsCap)

\* The row of 1001 pixels: every pixel is visited, the alphas sum to 50000
\* and the mean is below 50, yet the check returns 0.
C24_MeanOverVisited ==
    (ret.op = "check_image_validity" /\ ret.arg = Row1001) =>
        (AlphaSum(ret.arg) < LowAlpha * Len(ret.arg.px) => ret.val = F32Lit(20))

(***************************************************************************)
(* C25: cleanup.                                                           *)
(***************************************************************************)
\* The alpha of the pixel at (x, y), 0 outside the image
AlphaAt(img, x, y) ==
    IF x < 0 \/ y < 0 \/ x >= img.width \/ y >= img.height THEN 0
    ELSE img.px[y * img.width + x + 1][4]

Around(x, y) ==
    {<<x - 1, y - 1>>, <<x, y - 1>>, <<x + 1, y - 1>>, <<x - 1, y>>,
     <<x + 1, y>>, <<x - 1, y + 1>>, <<x, y + 1>>, <<x + 1, y + 1>>}

Survives(img, x, y) ==
    /\ AlphaAt(img, x, y) >= 128
    /\ Cardinality({n \in Around(x, y) : AlphaAt(img, n[1], n[2]) >= 128}) >= 2

\* C25: the image cleanup returns has the size of its input; a pixel of it is
\* non-transparent exactly when the input pixel has alpha >= 128 and at
\* least 2 of its 8 neighbours in the input (none outside the image) have
\* alpha >= 128; every pixel of it has alpha 0 or 255.
C25_CleanupTwoPass ==
    ret.op = "cleanup" =>
        /\ ret.val.width = ret.arg.width /\ ret.val.height = ret.arg.height
        /\ Len(ret.val.px) = Len(ret.arg.px)
        /\ \A x \in 0..(ret.arg.width - 1), y \in 0..(ret.arg.height - 1) :
              /\ AlphaAt(ret.val, x, y) \in {0, 255}
              /\ AlphaAt(ret.val, x, y) # 0 <=> Survives(ret.arg, x, y)

\* A 3x3 input whose top row alone is at the threshold: the corner (0, 0),
\* visited first, is erased, and the middle pixel (1, 0), which needs that
\* corner as its second neighbour, is kept and made opaque.
C25_Witness ==
    /\ ret.op = "cleanup"
    /\ ret.arg.width = 3
    /\ \A x \in 0..2, y \in 0..2 : AlphaAt(ret.arg, x, y) = 128 <=> y = 0
    /\ AlphaAt(ret.val, 0, 0) = 0
    /\ AlphaAt(ret.val, 1, 0) = 255

(***************************************************************************)
(* C26: the counts of get_stats.                                           *)
(***************************************************************************)
\* The reject entries a query selects, and the occurrences of a tag in them
RejectLinesOf(q) == Selected(file, "reject", q.character, q.motion_type)

IssuesAt(i) == IF EntryAt(file, i).issues = None THEN <<>> ELSE EntryAt(file, i).issues[1]

TagsOf(q) == UNION {{IssuesAt(i)[k] : k \in 1..Len(IssuesAt(i))} : i \in RejectLinesOf(q)}

Occurrences(q, tag) ==
    Cardinality({o \in RejectLinesOf(q) \X (1..3) :
                    o[2] <= Len(IssuesAt(o[1])) /\ IssuesAt(o[1])[o[2]] = tag})

AutoAcceptsOf(q) ==
    Cardinality({i \in Selected(file, "accept", q.character, q.motion_type) :
                    EntryAt(file, i).auto_accepted = Some(TRUE)})

C26_Counts ==
    (ret.op = "get_stats" /\ ret.ok) =>
        LET common_issues == ret.val.issue_counts IN
        /\ ret.val.total_generations =
               Cardinality(Selected(file, "generation", ret.arg.character,
                                    ret.arg.motion_type))
        /\ ret.val.accepted = AcceptsOf(ret.arg)
        /\ ret.val.rejected = RejectsOf(ret.arg)
        /\ ret.val.auto_accepted <= ret.val.accepted
        /\ ret.val.auto_accepted = AutoAcceptsOf(ret.arg)
        /\ {common_issues[i][1] : i \in DOMAIN common_issues} = TagsOf(ret.arg)
        /\ \A i, j \in DOMAIN common_issues :
              /\ i # j => common_issues[i][1] # common_issues[j][1]
              /\ i < j => common_issues[i][2] >= common_issues[j][2]
        /\ \A i \in DOMAIN common_issues :
              common_issues[i][2] = Occurrences(ret.arg, common_issues[i][1])

C26_QueryStep == ret'.op = "get_stats" => file' = file

HistoricalPenalty(f, character, motion_type) ==
    check_historical_success(TRUE, f, motion_type, Some(character))

SteerKeys == Characters \X {"walk", "run"}

\* The entry the step appended
Appended == file'[Len(file) + 1].e

C27_Step ==
    \A k \in SteerKeys :
        LET before == HistoricalPenalty(file, k[1], k[2])
            after == HistoricalPenalty(file', k[1], k[2]) IN
        /\ (ret'.op \in LogOps /\ ~ret'.ok) => after = before
        /\ (ret'.op \in LogOps /\ ret'.ok) =>
              IF Appended.event = "generation"
                 \/ <<Appended.character, Appended.motion_type>> # k
              THEN after = before
              ELSE IF Appended.event = "accept" THEN after <= before
              ELSE after >= before

\* C27: across log_acceptance, log_rejection and log_generation calls (what
\* accept_frame, reject_frame and generate_inbetweens do to the log), an
\* accept appended for (c, m) never increases and a reject appended for
\* (c, m) never decreases the historical penalty of the next score for
\* (c, m); a generation event, an event of another character or motion type
\* and a failed call leave it as it was.
C27_FeedbackSteers == [][C27_Step]_vars

WithoutLast(f) == SubSeq(f, 1, Len(f) - 2)

\* An acceptance for (hero, walk) appended to a log of one accept and four
\* rejects: the penalty for (hero, walk) falls from 0.35 to 0.25 and the one
\* for (villain, walk) stays 0.1.
C27_Witness ==
    /\ ret.op = "log_acceptance" /\ ret.ok
    /\ HistoricalPenalty(WithoutLast(file), "hero", "walk") = F32Lit(35)
    /\ HistoricalPenalty(file, "hero", "walk") = F32Lit(25)
    /\ HistoricalPenalty(file, "villain", "walk") = F32Lit(10)

\* A rejection for (hero, walk) appended to a log of seven accepts and three
\* rejects: the penalty for (hero, walk) rises from 0 to 0.1.
C27_WitnessReject ==
    /\ ret.op = "log_rejection" /\ ret.ok
    /\ HistoricalPenalty(WithoutLast(file), "hero", "walk") = 0
    /\ HistoricalPenalty(file, "hero", "walk") = F32Lit(10)

(***************************************************************************)
(* C28: the two acceptance rates.                                          *)
(***************************************************************************)
FracEq(p, q) == p[1] * q[2] = q[1] * p[2]

RateOfStatsQuery ==
    get_acceptance_rate(file, ret.arg.character, ret.arg.motion_type)

\* C28: the acceptance_rate of a successful get_stats equals what
\* get_acceptance_rate returns for the same filters over the same log, also
\* when no accept or reject entry passes the filters.
C28_RatesAgree ==
    (ret.op = "get_stats" /\ ret.ok) =>
        /\ RateOfStatsQuery.ok
        /\ FracEq(ret.val.acceptance_rate, RateOfStatsQuery.rate)

\* What does hold: the two agree whenever an accept or reject entry passes
\* the filters; with none, get_stats reports 0 and get_acceptance_rate 1/2.
C28_RatesAgreeWithData ==
    (ret.op = "get_stats" /\ ret.ok) =>
        /\ RateOfStatsQuery.ok
        /\ IF AcceptsOf(ret.arg) + RejectsOf(ret.arg) > 0
           THEN FracEq(ret.val.acceptance_rate, RateOfStatsQuery.rate)
           ELSE /\ FracEq(ret.val.acceptance_rate, <<0, 1>>)
                /\ FracEq(RateOfStatsQuery.rate, <<1, 2>>)

(***************************************************************************)
(* C29: the placement get_padding_info reports.                            *)
(***************************************************************************)
\* The padding before and after the content differ by at most one pixel
Centred(offset, scaled, target) ==
    /\ offset + scaled <= target
    /\ Abs((target - scaled - offset) - offset) <= 1

LargerAxisFills ==
    /\ ret.arg[1] >= ret.arg[2] =>
          ret.val.scaled_width = cfg.target_resolution /\ ret.val.x_offset = 0
    /\ ret.arg[2] >= ret.arg[1] =>
          ret.val.scaled_height = cfg.target_resolution /\ ret.val.y_offset = 0

PaddingCentred ==
    /\ Centred(ret.val.x_offset, ret.val.scaled_width, cfg.target_resolution)
    /\ Centred(ret.val.y_offset, ret.val.scaled_height, cfg.target_resolution)

\* C29: for every original size and target above 0, get_padding_info gives
\* scaled_width >= 1 and scaled_height >= 1, scales the larger original
\* dimension to exactly target with offset 0 on that axis, and centres the
\* padding on the other axis to within one pixel.
C29_PlacementSound ==
    ret.op = "get_padding_info" =>
        /\ ret.ok
        /\ ret.val.scaled_width >= 1 /\ ret.val.scaled_height >= 1
        /\ LargerAxisFills
        /\ PaddingCentred

\* What does hold for targets up to 1024: the larger dimension fills the
\* target at offset 0 and the padding is centred; the smaller dimension is
\* scaled to 0 when it is less than half a pixel of the target.
C29_PlacementUpTo1024 ==
    (ret.op = "get_padding_info" /\ cfg.target_resolution <= 1024) =>
        /\ ret.ok
        /\ LargerAxisFills
        /\ PaddingCentred
        /\ ret.val.scaled_width >= 1 <=>
              2 * ret.arg[1] * cfg.target_resolution >= Max(ret.arg[1], ret.arg[2])
        /\ ret.val.scaled_height >= 1 <=>
              2 * ret.arg[2] * cfg.target_resolution >= Max(ret.arg[1], ret.arg[2])

(***************************************************************************)
(* C30: the polling loop of generate_via_replicate.                        *)
(***************************************************************************)
Polling == poll.pc \in {"top", "sleep", "get"}
PollDone == poll.pc = "done" /\ poll.polls > 0

\* Each way out of the loop has its cause, and the polls are bounded by the
\* timeout.
PollOutcomeSound ==
    /\ Polling => poll.status \notin {"succeeded", "failed", "canceled"}
    /\ poll.polls * PollInterval <= poll.timeout_secs + PollInterval
    /\ PollDone =>
          /\ poll.status \in {"failed", "canceled"} <=> poll.outcome = "PredictionFailed"
          /\ poll.status = "" <=> poll.outcome \in {"RequestFailed", "Parse"}
          /\ poll.outcome = "frames" => poll.status = "succeeded"
          /\ poll.outcome = "Timeout" <=>
                poll.status \in Statuses \ {"succeeded", "failed", "canceled"}
          /\ poll.outcome = "Timeout" => poll.elapsed > poll.timeout_secs
    /\ (poll.pc = "done" /\ poll.polls = 0 /\ poll.outcome = "Timeout") =>
          poll.elapsed > poll.timeout_secs

SucceededGivesFrames ==
    (PollDone /\ poll.status = "succeeded") => poll.outcome = "frames"

SucceededGivesOutput ==
    (PollDone /\ poll.status = "succeeded") =>
        poll.outcome = (IF poll.output = "urls" /\ poll.download_ok THEN "frames"
                        ELSE IF poll.output = "urls" THEN "DownloadFailed"
                        ELSE "NoFramesExtracted")

\* C30 as stated: once the prediction is created the loop ends; it returns
\* frames when the status is succeeded, PredictionFailed when it is failed or
\* canceled, the request or parse error of a failed poll, and Timeout once
\* the elapsed time exceeds timeout_secs; a prediction that stays in
\* starting or processing is not polled for ever.
C30_PollingEndsWithFrames ==
    /\ [](PollOutcomeSound /\ SucceededGivesFrames)
    /\ (Polling ~> poll.pc = "done")

\* C30: once the prediction is created the loop ends. It returns what
\* process_output makes of the output when the status is succeeded (frames,
\* or NoFramesExtracted or a download error), PredictionFailed when the
\* status is failed or canceled, the request or parse error of a failed
\* poll, and Timeout when the elapsed time exceeds timeout_secs at the top of
\* an iteration; the polls sent are at most timeout_secs / 2 + 1.
C30_PollingEnds ==
    /\ [](PollOutcomeSound /\ SucceededGivesOutput)
    /\ (Polling ~> poll.pc = "done")

\* A prediction still processing at every poll: the call returns Timeout
\* after four polls with a timeout of 6 seconds.
C30_Witness ==
    /\ poll.pc = "done" /\ poll.outcome = "Timeout"
    /\ poll.timeout_secs = 6 /\ poll.polls = 4
    /\ poll.status = "processing"

\* A prediction that succeeded with no output: NoFramesExtracted.
C30_WitnessNoOutput ==
    /\ poll.pc = "done" /\ poll.status = "succeeded" /\ poll.output = "none"
    /\ poll.outcome = "NoFramesExtracted"

====
